---- MODULE Spec2Model ----
(***************************************************************************)
(* SandboxClaim reconciliation: the claim phase state machine of           *)
(* pkg/controller/sandboxclaim/core/util.go (CalculateClaimStatus and its  *)
(* helpers), driven by an environment that moves the clock, the SandboxSet *)
(* and the claimed-replica count between calls.                            *)
(*                                                                         *)
(* Optional (pointer) fields of the Go structs are sequences of length 0   *)
(* (nil) or 1 (set).  Times and durations are integers (seconds).          *)
(* Formatted messages are tuples <<format string, arguments...>>.          *)
(***************************************************************************)
EXTENDS Integers, Sequences, FiniteSets, TLC

\* ---------------------------------------------------------------- bounds
MaxTime == 3
MaxReplicas == 2
MaxGeneration == 2
MaxTimeout == 2
MaxTTL == 1
MaxVersion == 2
MaxCalls == 3
MaxCacheTime == 1
MaxSandboxes == 3
MaxRaceTime == 1

\* ------------------------------------------------------------- constants
DefaultReplicasCount == 1

SandboxClaimPhaseUnset == ""
SandboxClaimPhasePending == "Pending"
SandboxClaimPhaseClaiming == "Claiming"
SandboxClaimPhaseCompleted == "Completed"

SandboxClaimConditionCompleted == "Completed"
SandboxClaimConditionTimedOut == "TimedOut"

ConditionTrue == "True"

TemplateName == "test-sandboxset"

\* ------------------------------------------------------- optional values
None == << >>
Some(x) == << x >>

\* ------------------------------------------------------------ data model
\* &agentsv1alpha1.SandboxClaimStatus{} : the zero value of the status.
EmptyStatus ==
    [ Phase              |-> SandboxClaimPhaseUnset,
      ObservedGeneration |-> 0,
      ClaimStartTime     |-> None,
      ClaimedReplicas    |-> 0,
      CompletionTime     |-> None,
      Message            |-> << >>,
      Conditions         |-> << >> ]

\* Spec.Replicas (*int32) and Spec.ClaimTimeout (*metav1.Duration) are not
\* validated on creation, so zero and negative values are inputs too.
ReplicasValues == {None} \cup { Some(n) : n \in 0..MaxReplicas }
ClaimTimeoutValues == {None} \cup { Some(d) : d \in (-1)..MaxTimeout }

TTLValues == {None} \cup { Some(d) : d \in 0..MaxTTL }

\* The claims handed to CalculateClaimStatus, which does not read the TTL.
Claims ==
    [ Generation        : 1..MaxGeneration,
      Replicas          : ReplicasValues,
      ClaimTimeout      : ClaimTimeoutValues,
      TTLAfterCompleted : {None} ]

\* The claims a reconciliation pass works on.
ReconciledClaims ==
    [ Generation        : {1},
      Replicas          : ReplicasValues,
      ClaimTimeout      : {None} \cup { Some(d) : d \in 0..1 },
      TTLAfterCompleted : TTLValues ]

VARIABLES
    claim,       \* args.Claim: generation and spec of the SandboxClaim
    sandboxSet,  \* args.SandboxSet: None when the SandboxSet is not found
    status,      \* args.NewStatus: the status threaded through the calls
    now,         \* the wall clock read by metav1.Now() and time.Since()
    last,        \* record of the most recent CalculateClaimStatus call
    claimedSandboxes, \* number of sandboxes carrying the claim's two labels
    claimExists, \* the claim object is in the object store
    result,      \* record of the most recent reconciliation pass
    conds,       \* the pointer to a condition list setCondition is called on
    lastSet,     \* record of the most recent setCondition call
    sbx,         \* the sandbox handed to computeSandboxState
    classified,  \* what computeSandboxState returned for sbx, None before
    objects,     \* the Sandbox objects of the object store, by identity
    cache,       \* sandboxStateCache: cache key -> entry
    calls,       \* per goroutine: the call it is in and that call's locals
    ev,          \* record of the call that returned in the last step
    hist,        \* history of the cache: first inserts, keys to invalidate,
                 \* number of calls started, identities that get no further
                 \* version, were invalidated and not looked up since
    sandboxes,   \* the sandboxes the list call of countClaimedSandboxes sees
    counted,     \* record of the most recent countClaimedSandboxes call
    passes,      \* per worker: the pass it is in and what that pass loaded
    done,        \* record of the pass that ended in the last step
    apiClaim,    \* the claim object the API server holds, None before creation
    admission,   \* record of the latest admission request and its response
    firstReplicas, \* effective desired replicas of apiClaim when it was created
    resourceVersionCounter, \* the counter of the resource-version reactor
    assigned     \* the versions the reactor has assigned, in order

storeVars == << claimedSandboxes, claimExists, result >>

condVars == << conds, lastSet >>

classifyVars == << sbx, classified >>

cacheVars == << objects, cache, calls, ev, hist >>

countVars == << sandboxes, counted >>

raceVars == << passes, done >>

webhookVars == << apiClaim, admission, firstReplicas >>

reactorVars == << resourceVersionCounter, assigned >>

auxVars == << condVars, classifyVars, cacheVars, countVars, raceVars, webhookVars, reactorVars >>

vars == << claim, sandboxSet, status, now, last, storeVars, auxVars >>

\* ------------------------------------------------------ util.go helpers
\* getDesiredReplicas that ignores Spec.Replicas.
getDesiredReplicas_Default(c) == DefaultReplicasCount

getDesiredReplicas(c) ==
    IF c.Replicas # None THEN c.Replicas[1] ELSE DefaultReplicasCount

\* time.Since(t) with the clock reading `clock`.
Since(t, clock) == clock - t

\* isClaimTimeout that never reports a timeout.
isClaimTimeout_Never(c, st, clock) == FALSE

\* isClaimTimeout with a strict comparison (elapsed > timeout).
isClaimTimeout_Strict(c, st, clock) ==
    IF c.ClaimTimeout = None \/ st.ClaimStartTime = None
    THEN FALSE
    ELSE Since(st.ClaimStartTime[1], clock) > c.ClaimTimeout[1]

isClaimTimeout(c, st, clock) ==
    IF c.ClaimTimeout = None \/ st.ClaimStartTime = None
    THEN FALSE
    ELSE LET timeout == c.ClaimTimeout[1]
             elapsed == Since(st.ClaimStartTime[1], clock)
         IN  elapsed >= timeout

\* isReplicasMet with an equality test instead of >=.
isReplicasMet_Exact(c, st) == st.ClaimedReplicas = getDesiredReplicas(c)

isReplicasMet(c, st) == st.ClaimedReplicas >= getDesiredReplicas(c)

\* Index of the first condition of type t, 0 when there is none.
FindCondition(conditions, t) ==
    IF \E i \in 1..Len(conditions) : conditions[i].Type = t
    THEN CHOOSE i \in 1..Len(conditions) :
            /\ conditions[i].Type = t
            /\ \A j \in 1..(i - 1) : conditions[j].Type # t
    ELSE 0

\* A []metav1.Condition value: the nil slice, or a slice with elements.
\* A *[]metav1.Condition is None (the nil pointer) or Some(slice).
NilSlice == [ isNil |-> TRUE, elems |-> << >> ]

Slice(elems) == [ isNil |-> FALSE, elems |-> elems ]

\* &status.Conditions: the pointer handed to setCondition by the transition
\* functions; a status without conditions holds the nil slice.
AddressOf(list) == Some(IF list = << >> THEN NilSlice ELSE Slice(list))

\* The elements behind a pointer, none behind the nil pointer.
ListAt(conditions) ==
    IF conditions = None THEN << >> ELSE conditions[1].elems

\* setCondition that appends without looking for the type.
setCondition_Append(conditions, newCondition) ==
    IF conditions = None
    THEN conditions
    ELSE Some(Slice(Append(conditions[1].elems, newCondition)))

\* setCondition that keeps the transition time of an entry whose status
\* does not change.
setCondition_KeepTransitionTime(conditions, newCondition) ==
    IF conditions = None
    THEN conditions
    ELSE LET list == conditions[1].elems
             i == FindCondition(list, newCondition.Type)
         IN  IF i # 0
             THEN Some(Slice([list EXCEPT ![i] =
                     IF list[i].Status = newCondition.Status
                     THEN [newCondition EXCEPT
                             !.LastTransitionTime = list[i].LastTransitionTime]
                     ELSE newCondition]))
             ELSE Some(Slice(Append(list, newCondition)))

\* setCondition that takes the nil pointer for a pointer to an empty list.
setCondition_NoNilCheck(conditions, newCondition) ==
    LET list == ListAt(conditions)
        i == FindCondition(list, newCondition.Type)
    IN  IF i # 0
        THEN Some(Slice([list EXCEPT ![i] = newCondition]))
        ELSE Some(Slice(Append(list, newCondition)))

\* setCondition(conditions *[]metav1.Condition, newCondition): returns the
\* pointer with what it points to after the call.
setCondition(conditions, newCondition) ==
    IF conditions = None
    THEN conditions
    ELSE LET list == IF conditions[1].isNil THEN << >> ELSE conditions[1].elems
             i == FindCondition(list, newCondition.Type)
         IN  IF i # 0
             THEN Some(Slice([list EXCEPT ![i] = newCondition]))
             ELSE Some(Slice(Append(list, newCondition)))

Condition(type, reason, message, clock) ==
    [ Type               |-> type,
      Status             |-> ConditionTrue,
      Reason             |-> reason,
      Message            |-> message,
      LastTransitionTime |-> clock ]

\* transitionToCompleted that forgets the completion timestamp.
transitionToCompleted_NoCompletionTime(st, reason, message, clock) ==
    [ st EXCEPT
        !.Phase = SandboxClaimPhaseCompleted,
        !.Message = message,
        !.Conditions = ListAt(setCondition(AddressOf(st.Conditions),
            Condition(SandboxClaimConditionCompleted, reason, message, clock))) ]

transitionToCompleted(st, reason, message, clock) ==
    [ st EXCEPT
        !.Phase = SandboxClaimPhaseCompleted,
        !.Message = message,
        !.CompletionTime = Some(clock),
        !.Conditions = ListAt(setCondition(AddressOf(st.Conditions),
            Condition(SandboxClaimConditionCompleted, reason, message, clock))) ]

\* transitionToCompletedWithTimeout that sets the Completed condition only.
transitionToCompletedWithTimeout_NoTimedOut(st, elapsed, c, clock) ==
    transitionToCompleted(st, "TimeoutReached",
        << "Timeout reached after %v, claimed %d/%d sandboxes",
           elapsed, st.ClaimedReplicas, getDesiredReplicas(c) >>, clock)

transitionToCompletedWithTimeout(st, elapsed, c, clock) ==
    LET desiredReplicas == getDesiredReplicas(c)
        message == << "Timeout reached after %v, claimed %d/%d sandboxes",
                      elapsed, st.ClaimedReplicas, desiredReplicas >>
        timedOut == Condition(SandboxClaimConditionTimedOut, "ClaimTimeoutReached",
                      << "Timeout after %v, claimed %d/%d",
                         elapsed, st.ClaimedReplicas, desiredReplicas >>, clock)
        completed == Condition(SandboxClaimConditionCompleted, "TimeoutReached",
                      message, clock)
    IN  [ st EXCEPT
            !.Phase = SandboxClaimPhaseCompleted,
            !.Message = message,
            !.CompletionTime = Some(clock),
            !.Conditions = ListAt(setCondition(
                setCondition(AddressOf(st.Conditions), timedOut), completed)) ]

\* transitionToCompletedWithSuccess that sets no condition.
transitionToCompletedWithSuccess_NoCondition(st, c, clock) ==
    [ st EXCEPT
        !.Phase = SandboxClaimPhaseCompleted,
        !.Message = << "Successfully claimed %d/%d sandboxes",
                       st.ClaimedReplicas, getDesiredReplicas(c) >>,
        !.CompletionTime = Some(clock) ]

transitionToCompletedWithSuccess(st, c, clock) ==
    LET desiredReplicas == getDesiredReplicas(c)
    IN  [ st EXCEPT
            !.Phase = SandboxClaimPhaseCompleted,
            !.Message = << "Successfully claimed %d/%d sandboxes",
                           st.ClaimedReplicas, desiredReplicas >>,
            !.CompletionTime = Some(clock),
            !.Conditions = ListAt(setCondition(AddressOf(st.Conditions),
                Condition(SandboxClaimConditionCompleted, "AllReplicasClaimed",
                    << "Successfully claimed all %d sandboxes", st.ClaimedReplicas >>,
                    clock))) ]

\* The checks with the replica count looked at before the timeout.
TerminalChecks_ReplicasFirst(c, sbs, newStatus, clock) ==
    IF sbs = None
    THEN [ newStatus |-> transitionToCompleted(newStatus, "SandboxSetNotFound",
                            << "SandboxSet not found or deleted" >>, clock),
           skip |-> TRUE ]
    ELSE IF isReplicasMet(c, newStatus)
    THEN [ newStatus |-> transitionToCompletedWithSuccess(newStatus, c, clock),
           skip |-> TRUE ]
    ELSE IF isClaimTimeout(c, newStatus, clock)
    THEN [ newStatus |-> transitionToCompletedWithTimeout(newStatus,
                            Since(newStatus.ClaimStartTime[1], clock), c, clock),
           skip |-> TRUE ]
    ELSE [ newStatus |-> newStatus, skip |-> FALSE ]

\* CalculateClaimStatus, steps 3 to 6: the checks made on a status that is
\* neither new nor Completed, in their fixed order.
TerminalChecks(c, sbs, newStatus, clock) ==
    IF sbs = None
    THEN [ newStatus |-> transitionToCompleted(newStatus, "SandboxSetNotFound",
                            << "SandboxSet not found or deleted" >>, clock),
           skip |-> TRUE ]
    ELSE IF isClaimTimeout(c, newStatus, clock)
    THEN [ newStatus |-> transitionToCompletedWithTimeout(newStatus,
                            Since(newStatus.ClaimStartTime[1], clock), c, clock),
           skip |-> TRUE ]
    ELSE IF isReplicasMet(c, newStatus)
    THEN [ newStatus |-> transitionToCompletedWithSuccess(newStatus, c, clock),
           skip |-> TRUE ]
    ELSE [ newStatus |-> newStatus, skip |-> FALSE ]

\* The initial transition reported with skipBusinessLogic = true.
StartClaiming_Skip(newStatus, clock) ==
    [ newStatus |-> [newStatus EXCEPT
                        !.Phase = SandboxClaimPhaseClaiming,
                        !.ClaimStartTime = Some(clock)],
      skip |-> TRUE ]

\* The initial transition into the phase Pending of the API.
StartClaiming_Pending(newStatus, clock) ==
    [ newStatus |-> [newStatus EXCEPT
                        !.Phase = SandboxClaimPhasePending,
                        !.ClaimStartTime = Some(clock)],
      skip |-> FALSE ]

\* The initial transition: Phase = Claiming, ClaimStartTime = now.
StartClaiming(newStatus, clock) ==
    [ newStatus |-> [newStatus EXCEPT
                        !.Phase = SandboxClaimPhaseClaiming,
                        !.ClaimStartTime = Some(clock)],
      skip |-> FALSE ]

\* CalculateClaimStatus that takes every status not in phase Claiming for a
\* new claim.
CalculateClaimStatus_Reinit(c, sbs, st, clock) ==
    LET newStatus == [st EXCEPT !.ObservedGeneration = c.Generation]
    IN  IF newStatus.Phase # SandboxClaimPhaseClaiming
        THEN StartClaiming(newStatus, clock)
        ELSE TerminalChecks(c, sbs, newStatus, clock)

\* CalculateClaimStatus that looks for the SandboxSet before it handles the
\* initial state.
CalculateClaimStatus_PoolFirst(c, sbs, st, clock) ==
    LET newStatus == [st EXCEPT !.ObservedGeneration = c.Generation]
    IN  IF newStatus.Phase = SandboxClaimPhaseCompleted
        THEN [ newStatus |-> newStatus, skip |-> FALSE ]
        ELSE IF sbs = None
        THEN TerminalChecks(c, sbs, newStatus, clock)
        ELSE IF newStatus.Phase = SandboxClaimPhaseUnset
        THEN StartClaiming(newStatus, clock)
        ELSE TerminalChecks(c, sbs, newStatus, clock)

\* CalculateClaimStatus that returns a Completed status before it has
\* refreshed ObservedGeneration.
CalculateClaimStatus_StaleGeneration(c, sbs, st, clock) ==
    LET newStatus == [st EXCEPT !.ObservedGeneration = c.Generation]
    IN  IF st.Phase = SandboxClaimPhaseCompleted
        THEN [ newStatus |-> st, skip |-> FALSE ]
        ELSE IF newStatus.Phase = SandboxClaimPhaseUnset
        THEN StartClaiming(newStatus, clock)
        ELSE TerminalChecks(c, sbs, newStatus, clock)

\* CalculateClaimStatus without the early return for the terminal phase.
CalculateClaimStatus_NoTerminalGuard(c, sbs, st, clock) ==
    LET newStatus == [st EXCEPT !.ObservedGeneration = c.Generation]
    IN  IF newStatus.Phase = SandboxClaimPhaseUnset
        THEN StartClaiming(newStatus, clock)
        ELSE TerminalChecks(c, sbs, newStatus, clock)

\* CalculateClaimStatus that starts the claim over when the claim's spec has
\* changed since the last evaluation.
CalculateClaimStatus_RestartOnUpdate(c, sbs, st, clock) ==
    LET newStatus == [st EXCEPT !.ObservedGeneration = c.Generation]
    IN  IF \/ newStatus.Phase = SandboxClaimPhaseUnset
           \/ /\ st.Phase = SandboxClaimPhaseClaiming
              /\ st.ObservedGeneration # c.Generation
        THEN StartClaiming(newStatus, clock)
        ELSE IF newStatus.Phase = SandboxClaimPhaseCompleted
        THEN [ newStatus |-> newStatus, skip |-> FALSE ]
        ELSE TerminalChecks(c, sbs, newStatus, clock)

\* CalculateClaimStatus that reports skipBusinessLogic = true for a status
\* that is already Completed.
CalculateClaimStatus_SkipCompleted(c, sbs, st, clock) ==
    LET newStatus == [st EXCEPT !.ObservedGeneration = c.Generation]
    IN  IF newStatus.Phase = SandboxClaimPhaseUnset
        THEN StartClaiming(newStatus, clock)
        ELSE IF newStatus.Phase = SandboxClaimPhaseCompleted
        THEN [ newStatus |-> newStatus, skip |-> TRUE ]
        ELSE TerminalChecks(c, sbs, newStatus, clock)

\* CalculateClaimStatus(args) -> (newStatus, skipBusinessLogic)
CalculateClaimStatus(c, sbs, st, clock) ==
    LET newStatus == [st EXCEPT !.ObservedGeneration = c.Generation]
    IN  IF newStatus.Phase = SandboxClaimPhaseUnset
        THEN StartClaiming(newStatus, clock)
        ELSE IF newStatus.Phase = SandboxClaimPhaseCompleted
        THEN [ newStatus |-> newStatus, skip |-> FALSE ]
        ELSE TerminalChecks(c, sbs, newStatus, clock)

\* ---------------------------------------------------------------- state
NoCall ==
    [ called     |-> FALSE,
      claim      |-> [Generation |-> 1, Replicas |-> None, ClaimTimeout |-> None,
                      TTLAfterCompleted |-> None],
      sandboxSet |-> None,
      status     |-> EmptyStatus,
      now        |-> 0,
      newStatus  |-> EmptyStatus,
      skip       |-> FALSE ]

NoPass ==
    [ passed      |-> FALSE,
      found       |-> FALSE,
      phaseBefore |-> SandboxClaimPhaseUnset,
      sandboxSet  |-> None,
      ensured     |-> "none",
      requeue     |-> "NoRequeue",
      after       |-> 0,
      err         |-> FALSE ]

\* ------------------------------------------------- parts not in use
\* Each specification below drives one part of the program and leaves the
\* variables of the other parts at these values.
NoSet ==
    [ called       |-> FALSE,
      before       |-> None,
      newCondition |-> [ Type |-> "", Status |-> "", Reason |-> "",
                         Message |-> << >>, LastTransitionTime |-> 0 ] ]

EmptyMap == [ k \in {} |-> None ]

IdleCall ==
    [ op |-> "idle", sbx |-> None, key |-> << >>, entry |-> None,
      namespace |-> << >>, name |-> << >>, todo |-> {}, seen |-> {} ]

NoEvent ==
    [ kind |-> "none", sbx |-> None, key |-> << >>, path |-> "",
      computed |-> None, value |-> None,
      namespace |-> << >>, name |-> << >>, removed |-> 0 ]

EmptyHist == [ canon |-> {}, old |-> {}, started |-> 0, final |-> {} ]

NoCount == [ called |-> FALSE, count |-> 0 ]

CondIdle == conds = None /\ lastSet = NoSet

ClassifyIdle == sbx = None /\ classified = None

CacheIdle ==
    /\ objects = EmptyMap
    /\ cache = EmptyMap
    /\ calls = EmptyMap
    /\ ev = NoEvent
    /\ hist = EmptyHist

CountIdle == sandboxes = {} /\ counted = NoCount

NoDone ==
    [ kind |-> "none", worker |-> 0, err |-> FALSE,
      loaded |-> EmptyStatus, computed |-> EmptyStatus ]

RaceIdle == passes = EmptyMap /\ done = NoDone

NoAdmission ==
    [ Operation |-> "", Object |-> None, OldObject |-> None,
      decodes |-> FALSE, oldDecodes |-> FALSE,
      Allowed |-> FALSE, Code |-> 0, Message |-> << >> ]

WebhookIdle == apiClaim = None /\ admission = NoAdmission /\ firstReplicas = 0

\* var resourceVersionCounter int64 = 1
ReactorIdle == resourceVersionCounter = 1 /\ assigned = << >>

AuxIdle ==
    /\ CondIdle /\ ClassifyIdle /\ CacheIdle /\ CountIdle /\ RaceIdle
    /\ WebhookIdle /\ ReactorIdle

\* The claim, its status and the reconciler at rest.
ClaimIdle ==
    /\ claim = NoCall.claim
    /\ sandboxSet = None
    /\ status = EmptyStatus
    /\ last = NoCall
    /\ claimedSandboxes = 0
    /\ claimExists = TRUE
    /\ result = NoPass

claimVars == << claim, sandboxSet, status, last, storeVars >>

Init ==
    /\ claim \in Claims
    /\ sandboxSet \in {None, Some(TemplateName)}
    /\ status = EmptyStatus
    /\ now = 0
    /\ last = NoCall
    /\ claimedSandboxes = 0
    /\ claimExists = TRUE
    /\ result = NoPass
    /\ AuxIdle

\* One call of CalculateClaimStatus on the current arguments; the returned
\* status is the one handed to the next call.
Calculate ==
    LET r == CalculateClaimStatus(claim, sandboxSet, status, now)
    IN  /\ status' = r.newStatus
        /\ last' = [ called     |-> TRUE,
                     claim      |-> claim,
                     sandboxSet |-> sandboxSet,
                     status     |-> status,
                     now        |-> now,
                     newStatus  |-> r.newStatus,
                     skip       |-> r.skip ]
        /\ UNCHANGED << claim, sandboxSet, now >>
        /\ UNCHANGED storeVars
        /\ UNCHANGED auxVars

\* The clock advances.
Tick ==
    /\ now < MaxTime
    /\ now' = now + 1
    /\ last' = NoCall
    /\ UNCHANGED << claim, sandboxSet, status >>
    /\ UNCHANGED storeVars
    /\ UNCHANGED auxVars

\* The wall clock is read lower than before (clock step, or a pass run by a
\* replica whose clock is behind): a persisted ClaimStartTime can then lie
\* in the future.
ClockSkew ==
    /\ now > 0
    /\ now' = now - 1
    /\ last' = NoCall
    /\ UNCHANGED << claim, sandboxSet, status >>
    /\ UNCHANGED storeVars
    /\ UNCHANGED auxVars

\* The SandboxSet is deleted or (re)created between two calls.
SandboxSetChange ==
    /\ sandboxSet' = IF sandboxSet = None THEN Some(TemplateName) ELSE None
    /\ last' = NoCall
    /\ UNCHANGED << claim, status, now >>
    /\ UNCHANGED storeVars
    /\ UNCHANGED auxVars

\* The claim's spec is updated: the generation grows, the timeout may
\* change; the desired replica count is immutable.
UpdateClaim ==
    /\ claim.Generation < MaxGeneration
    /\ \E t \in ClaimTimeoutValues :
          claim' = [claim EXCEPT !.Generation = @ + 1, !.ClaimTimeout = t]
    /\ last' = NoCall
    /\ UNCHANGED << sandboxSet, status, now >>
    /\ UNCHANGED storeVars
    /\ UNCHANGED auxVars

\* Between two calls the claiming step stores the number of sandboxes bound
\* to the claim in the status.
CountChange ==
    /\ status.Phase = SandboxClaimPhaseClaiming
    /\ \E n \in 0..(MaxReplicas + 1) :
          /\ n # status.ClaimedReplicas
          /\ status' = [status EXCEPT !.ClaimedReplicas = n]
    /\ last' = NoCall
    /\ UNCHANGED << claim, sandboxSet, now >>
    /\ UNCHANGED storeVars
    /\ UNCHANGED auxVars

Next ==
    \/ Calculate
    \/ Tick
    \/ ClockSkew
    \/ SandboxSetChange
    \/ UpdateClaim
    \/ CountChange

Spec == Init /\ [][Next]_vars

\* ------------------------------------------------- reconciliation pass
\* The Reconciler and the Ensure* steps of ClaimControl.

\* Delay of the requeue EnsureClaimClaiming asks for while replicas are
\* missing.
ClaimRetryDelay == 1

\* countClaimedSandboxes: the sandboxes of the claim's namespace that carry
\* both binding labels of the claim.
countClaimedSandboxes == claimedSandboxes

\* EnsureClaimPending: Phase = Claiming, ClaimStartTime = now, requeue
\* immediately.
EnsureClaimPending(c, st, clock) ==
    [ newStatus |-> [st EXCEPT !.Phase = SandboxClaimPhaseClaiming,
                               !.ClaimStartTime = Some(clock)],
      requeue   |-> "RequeueImmediately",
      after     |-> 0,
      delete    |-> FALSE ]

\* EnsureClaimClaiming: store the number of bound sandboxes; requeue
\* immediately when it reaches the desired count, after a delay otherwise.
EnsureClaimClaiming(c, st, clock) ==
    LET count == countClaimedSandboxes
        met   == count >= getDesiredReplicas(c)
    IN  [ newStatus |-> [st EXCEPT !.ClaimedReplicas = count],
          requeue   |-> IF met THEN "RequeueImmediately" ELSE "RequeueAfter",
          after     |-> IF met THEN 0 ELSE ClaimRetryDelay,
          delete    |-> FALSE ]

\* EnsureClaimCompleted that deletes the claim as soon as a TTL is set.
EnsureClaimCompleted_DeleteAtOnce(c, st, clock) ==
    [ newStatus |-> st, requeue |-> "NoRequeue", after |-> 0,
      delete |-> c.TTLAfterCompleted # None ]

\* EnsureClaimCompleted: nothing without a TTL; a requeue for the remaining
\* time before the TTL has elapsed; deletion of the claim after it.
EnsureClaimCompleted(c, st, clock) ==
    IF c.TTLAfterCompleted = None \/ st.CompletionTime = None
    THEN [ newStatus |-> st, requeue |-> "NoRequeue", after |-> 0,
           delete |-> FALSE ]
    ELSE LET elapsed == Since(st.CompletionTime[1], clock)
             ttl     == c.TTLAfterCompleted[1]
         IN  IF elapsed < ttl
             THEN [ newStatus |-> st, requeue |-> "RequeueAfter",
                    after |-> ttl - elapsed, delete |-> FALSE ]
             ELSE [ newStatus |-> st, requeue |-> "NoRequeue", after |-> 0,
                    delete |-> TRUE ]

\* The Ensure* step of the phase the claim was loaded with: a new claim
\* (phase unset) gets EnsureClaimPending, although CalculateClaimStatus has
\* already moved the in-memory status to Claiming.
Ensure(phase, c, st, clock) ==
    IF phase = SandboxClaimPhaseUnset THEN EnsureClaimPending(c, st, clock)
    ELSE IF phase = SandboxClaimPhaseClaiming THEN EnsureClaimClaiming(c, st, clock)
    ELSE EnsureClaimCompleted(c, st, clock)

\* A pass with skipBusinessLogic that runs the Ensure* step all the same.
SkipBusinessLogic_Ensure(phase, c, st, clock) ==
    [ ensured |-> phase ] @@ Ensure(phase, c, st, clock)

\* What a pass does in place of the Ensure* step when CalculateClaimStatus
\* returns skipBusinessLogic: nothing is counted, claimed or deleted, the
\* status goes to the status update as returned, and the result carries no
\* requeue, as TestReconciler_Reconcile_Timeout observes it (neither
\* Requeue nor RequeueAfter).
SkipBusinessLogic(phase, c, st, clock) ==
    [ newStatus |-> st,
      requeue   |-> "NoRequeue",
      after     |-> 0,
      delete    |-> FALSE,
      ensured   |-> "none" ]

InitReconcile ==
    /\ claim \in ReconciledClaims
    /\ sandboxSet \in {None, Some(TemplateName)}
    /\ status = EmptyStatus
    /\ now = 0
    /\ last = NoCall
    /\ claimedSandboxes = 0
    /\ claimExists = TRUE
    /\ result = NoPass
    /\ AuxIdle

\* A pass for a claim that is not in the object store which goes on with
\* the zero-valued claim and writes it back.
ReconcileNotFound_WriteBack ==
    /\ ~claimExists
    /\ claimExists' = TRUE
    /\ result' = [NoPass EXCEPT !.passed = TRUE]
    /\ last' = NoCall
    /\ UNCHANGED << claim, sandboxSet, status, now, claimedSandboxes >>
    /\ UNCHANGED auxVars

\* A pass for a claim that is not in the object store: no error, no
\* requeue, nothing written.
ReconcileNotFound ==
    /\ ~claimExists
    /\ result' = [NoPass EXCEPT !.passed = TRUE]
    /\ last' = NoCall
    /\ UNCHANGED << claim, sandboxSet, status, now, claimedSandboxes, claimExists >>
    /\ UNCHANGED auxVars

\* A pass that loads the claim and its SandboxSet, calls
\* CalculateClaimStatus and, with skipBusinessLogic, persists the status
\* and returns.
ReconcileSkip ==
    LET r == CalculateClaimStatus(claim, sandboxSet, status, now)
        e == SkipBusinessLogic(status.Phase, claim, r.newStatus, now)
    IN  /\ claimExists
        /\ r.skip
        /\ status' = e.newStatus
        /\ claimExists' = ~e.delete
        /\ last' = [ called |-> TRUE, claim |-> claim, sandboxSet |-> sandboxSet,
                     status |-> status, now |-> now,
                     newStatus |-> r.newStatus, skip |-> r.skip ]
        /\ result' = [ passed |-> TRUE, found |-> TRUE,
                       phaseBefore |-> status.Phase, sandboxSet |-> sandboxSet,
                       ensured |-> e.ensured,
                       requeue |-> e.requeue, after |-> e.after, err |-> FALSE ]
        /\ UNCHANGED << claim, sandboxSet, now, claimedSandboxes >>
        /\ UNCHANGED auxVars

\* A pass in which CalculateClaimStatus does not skip: the Ensure* step of
\* the claim's phase runs, the status is persisted (or the claim deleted)
\* and the step's requeue strategy is returned.
ReconcileEnsure ==
    LET r == CalculateClaimStatus(claim, sandboxSet, status, now)
        e == Ensure(status.Phase, claim, r.newStatus, now)
    IN  /\ claimExists
        /\ ~r.skip
        /\ status' = e.newStatus
        /\ claimExists' = ~e.delete
        /\ last' = [ called |-> TRUE, claim |-> claim, sandboxSet |-> sandboxSet,
                     status |-> status, now |-> now,
                     newStatus |-> r.newStatus, skip |-> r.skip ]
        /\ result' = [ passed |-> TRUE, found |-> TRUE,
                       phaseBefore |-> status.Phase, sandboxSet |-> sandboxSet,
                       ensured |-> status.Phase,
                       requeue |-> e.requeue, after |-> e.after, err |-> FALSE ]
        /\ UNCHANGED << claim, sandboxSet, now, claimedSandboxes >>
        /\ UNCHANGED auxVars

\* A pass whose list call in countClaimedSandboxes fails: the error is
\* returned and nothing is persisted.
ReconcileListError ==
    LET r == CalculateClaimStatus(claim, sandboxSet, status, now)
    IN  /\ claimExists
        /\ ~r.skip
        /\ status.Phase = SandboxClaimPhaseClaiming
        /\ last' = [ called |-> TRUE, claim |-> claim, sandboxSet |-> sandboxSet,
                     status |-> status, now |-> now,
                     newStatus |-> r.newStatus, skip |-> r.skip ]
        /\ result' = [ passed |-> TRUE, found |-> TRUE,
                       phaseBefore |-> status.Phase, sandboxSet |-> sandboxSet,
                       ensured |-> status.Phase,
                       requeue |-> "NoRequeue", after |-> 0, err |-> TRUE ]
        /\ UNCHANGED << claim, sandboxSet, status, now, claimedSandboxes,
                        claimExists >>
        /\ UNCHANGED auxVars

\* A sandbox is bound to the claim, or a bound sandbox is deleted.
SandboxesChange ==
    /\ \E n \in 0..(MaxReplicas + 1) :
          /\ n # claimedSandboxes
          /\ claimedSandboxes' = n
    /\ last' = NoCall
    /\ result' = NoPass
    /\ UNCHANGED << claim, sandboxSet, status, now, claimExists >>
    /\ UNCHANGED auxVars

\* Clock and SandboxSet changes between passes.
StoreTick ==
    /\ now < MaxTime
    /\ now' = now + 1
    /\ last' = NoCall
    /\ result' = NoPass
    /\ UNCHANGED << claim, sandboxSet, status, claimedSandboxes, claimExists >>
    /\ UNCHANGED auxVars

StoreSandboxSetChange ==
    /\ sandboxSet' = IF sandboxSet = None THEN Some(TemplateName) ELSE None
    /\ last' = NoCall
    /\ result' = NoPass
    /\ UNCHANGED << claim, status, now, claimedSandboxes, claimExists >>
    /\ UNCHANGED auxVars

NextReconcile ==
    \/ ReconcileNotFound
    \/ ReconcileSkip
    \/ ReconcileEnsure
    \/ ReconcileListError
    \/ SandboxesChange
    \/ StoreTick
    \/ StoreSandboxSetChange

SpecReconcile == InitReconcile /\ [][NextReconcile]_vars

\* ------------------------------------------------ condition lists
\* setCondition called again and again on one condition list.
ConditionTypes == {"TestCondition", "AnotherCondition", SandboxClaimConditionCompleted}

NewConditions ==
    [ Type               : ConditionTypes,
      Status             : {"True", "False"},
      Reason             : {"TestReason", "UpdatedReason"},
      Message            : {<< "Test message" >>},
      LastTransitionTime : 0..1 ]

\* The pointer is nil, or points to the nil slice, to the empty slice or to
\* a slice of one condition (TestSetCondition).
InitConditions ==
    /\ conds \in {None, Some(NilSlice), Some(Slice(<< >>))}
                 \cup { Some(Slice(<< c >>)) : c \in NewConditions }
    /\ lastSet = NoSet
    /\ now = 0
    /\ ClaimIdle
    /\ ClassifyIdle
    /\ CacheIdle
    /\ CountIdle
    /\ RaceIdle
    /\ WebhookIdle
    /\ ReactorIdle

SetCondition ==
    /\ \E c \in NewConditions :
          /\ conds' = setCondition(conds, c)
          /\ lastSet' = [ called |-> TRUE, before |-> conds, newCondition |-> c ]
    /\ UNCHANGED << now, claimVars, classifyVars, cacheVars, countVars, raceVars, webhookVars, reactorVars >>

NextConditions == SetCondition

SpecConditions == InitConditions /\ [][NextConditions]_vars

\* ------------------------------------------------ sandbox classification
\* Strings that are formatted, concatenated or searched (namespace, name,
\* resource version, cache key) are sequences of one-character strings.
SandboxStateCreating == "creating"
SandboxStateAvailable == "available"
SandboxStateRunning == "running"
SandboxStatePaused == "paused"
SandboxStateDead == "dead"

SandboxPending == "Pending"
SandboxRunning == "Running"
SandboxPaused == "Paused"
SandboxResuming == "Resuming"
SandboxSucceeded == "Succeeded"
SandboxFailed == "Failed"
SandboxTerminating == "Terminating"

SandboxConditionReady == "Ready"

\* SandboxSetControllerKind: its Kind and its GroupVersion().String().
SandboxSetKind == "SandboxSet"
SandboxSetGroupVersion == "agents.kruise.io/v1alpha1"

\* metav1.GetControllerOfNoCopy(sbx): None, or the controlling owner
\* reference.
ControllerRefs ==
    { None,
      Some([ Kind |-> SandboxSetKind, APIVersion |-> SandboxSetGroupVersion ]),
      Some([ Kind |-> SandboxSetKind, APIVersion |-> "agents.kruise.io/v1beta1" ]),
      Some([ Kind |-> "ReplicaSet", APIVersion |-> "apps/v1" ]) }

SandboxPhases ==
    { "", SandboxPending, SandboxRunning, SandboxPaused, SandboxResuming,
      SandboxSucceeded, SandboxFailed, SandboxTerminating }

\* Status.Conditions of a sandbox: no Ready condition, or one, alone or
\* after a condition of another type.
SandboxConditionLists ==
    { << >>, << [ Type |-> "Initialized", Status |-> "True" ] >> }
    \cup { << [ Type |-> SandboxConditionReady, Status |-> v ] >> :
              v \in {"True", "False", "Unknown"} }
    \cup { << [ Type |-> "Initialized", Status |-> "True" ],
              [ Type |-> SandboxConditionReady, Status |-> v ] >> :
              v \in {"True", "False"} }

\* The sandboxes computeSandboxState is applied to.
ClassifiedSandboxes ==
    [ Namespace         : {<< "n" >>},
      Name              : {<< "a" >>},
      ResourceVersion   : {<< "1" >>},
      DeletionTimestamp : {None, Some(0)},
      ShutdownTime      : {None, Some(1)},
      Phase             : SandboxPhases,
      Controller        : ControllerRefs,
      Paused            : BOOLEAN,
      PodIP             : {"", "10.0.0.1"},
      Conditions        : SandboxConditionLists ]

\* utils.GetSandboxCondition: the condition of the given type, None when
\* the status has none.
GetSandboxCondition(conditions, condType) ==
    IF \E i \in 1..Len(conditions) : conditions[i].Type = condType
    THEN Some(conditions[CHOOSE i \in 1..Len(conditions) :
                            conditions[i].Type = condType])
    ELSE None

\* IsSandboxReady that does not look at the pod address.
IsSandboxReady_NoAddress(s) ==
    LET readyCond == GetSandboxCondition(s.Conditions, SandboxConditionReady)
    IN  readyCond # None /\ readyCond[1].Status = ConditionTrue

IsSandboxReady(s) ==
    IF s.PodIP = ""
    THEN FALSE
    ELSE LET readyCond == GetSandboxCondition(s.Conditions, SandboxConditionReady)
         IN  readyCond # None /\ readyCond[1].Status = ConditionTrue

\* IsControlledBySandboxCR that compares the Kind only.
IsControlledBySandboxCR_KindOnly(s) ==
    LET controller == s.Controller
    IN  IF controller = None
        THEN FALSE
        ELSE controller[1].Kind = SandboxSetKind

IsControlledBySandboxCR(s) ==
    LET controller == s.Controller
    IN  IF controller = None
        THEN FALSE
        ELSE /\ controller[1].Kind = SandboxSetKind
             /\ controller[1].APIVersion = SandboxSetGroupVersion

Entry(state, reason) == [ state |-> state, reason |-> reason ]

\* computeSandboxState from the IsSandboxReady call on: ownership, phase
\* Running, pause flag, readiness.
classifyByOwner(s) ==
    LET sandboxReady == IsSandboxReady(s)
    IN  IF IsControlledBySandboxCR(s)
        THEN IF sandboxReady
             THEN Entry(SandboxStateAvailable, "ResourceControlledBySbsAndReady")
             ELSE Entry(SandboxStateCreating, "ResourceControlledBySbsButNotReady")
        ELSE IF s.Phase = SandboxRunning
        THEN IF s.Paused
             THEN Entry(SandboxStatePaused, "RunningResourceClaimedAndPaused")
             ELSE IF sandboxReady
             THEN Entry(SandboxStateRunning, "RunningResourceClaimedAndReady")
             ELSE Entry(SandboxStateDead, "RunningResourceClaimedButNotReady")
        ELSE Entry(SandboxStatePaused, "NotRunningResourceClaimed")

\* computeSandboxState that looks at the phase before the deletion
\* timestamp and the shutdown time.
computeSandboxState_PhaseFirst(s, clock) ==
    IF s.Phase = SandboxPending
    THEN Entry(SandboxStateCreating, "ResourcePending")
    ELSE IF s.Phase = SandboxSucceeded
    THEN Entry(SandboxStateDead, "ResourceSucceeded")
    ELSE IF s.Phase = SandboxFailed
    THEN Entry(SandboxStateDead, "ResourceFailed")
    ELSE IF s.Phase = SandboxTerminating
    THEN Entry(SandboxStateDead, "ResourceTerminating")
    ELSE IF s.DeletionTimestamp # None
    THEN Entry(SandboxStateDead, "ResourceDeleted")
    ELSE IF s.ShutdownTime # None /\ Since(s.ShutdownTime[1], clock) > 0
    THEN Entry(SandboxStateDead, "ShutdownTimeReached")
    ELSE classifyByOwner(s)

\* computeSandboxState(sbx) -> (state, reason), with the clock reading that
\* time.Since uses.
computeSandboxState(s, clock) ==
    IF s.DeletionTimestamp # None
    THEN Entry(SandboxStateDead, "ResourceDeleted")
    ELSE IF s.ShutdownTime # None /\ Since(s.ShutdownTime[1], clock) > 0
    THEN Entry(SandboxStateDead, "ShutdownTimeReached")
    ELSE IF s.Phase = SandboxPending
    THEN Entry(SandboxStateCreating, "ResourcePending")
    ELSE IF s.Phase = SandboxSucceeded
    THEN Entry(SandboxStateDead, "ResourceSucceeded")
    ELSE IF s.Phase = SandboxFailed
    THEN Entry(SandboxStateDead, "ResourceFailed")
    ELSE IF s.Phase = SandboxTerminating
    THEN Entry(SandboxStateDead, "ResourceTerminating")
    ELSE classifyByOwner(s)

InitClassify ==
    /\ sbx \in ClassifiedSandboxes
    /\ classified = None
    /\ now = 0
    /\ ClaimIdle
    /\ CondIdle
    /\ CacheIdle
    /\ CountIdle
    /\ RaceIdle
    /\ WebhookIdle
    /\ ReactorIdle

\* One call of computeSandboxState on the sandbox.
Classify ==
    /\ classified' = Some(computeSandboxState(sbx, now))
    /\ UNCHANGED << sbx, now, claimVars, condVars, cacheVars, countVars, raceVars, webhookVars, reactorVars >>

\* The clock advances between two calls.
ClassifyTick ==
    /\ now < MaxTime
    /\ now' = now + 1
    /\ classified' = None
    /\ UNCHANGED << sbx, claimVars, condVars, cacheVars, countVars, raceVars, webhookVars, reactorVars >>

NextClassify ==
    \/ Classify
    \/ ClassifyTick

SpecClassify == InitClassify /\ [][NextClassify]_vars

\* --------------------------------------------------- sandbox state cache
\* GetSandboxState and DeleteSandboxCache, called by several goroutines on
\* the one sandboxStateCache.  A step is one operation of the sync.Map
\* (Load, LoadOrStore, Delete, the start of a Range).  A run makes up to
\* MaxCalls calls, each in a goroutine of its own, so that as many calls can
\* be under way at once.
Callers == 1..MaxCalls

Namespaces == { << "n" >> }
Names == { << "a" >>, << "a", "b" >> }
Identities == Namespaces \X Names

DigitChars == << "0", "1", "2", "3", "4", "5", "6", "7", "8", "9" >>

\* strconv.FormatInt(n, 10) for n >= 0.
RECURSIVE FormatInt(_)
FormatInt(n) ==
    IF n < 10
    THEN << DigitChars[n + 1] >>
    ELSE FormatInt(n \div 10) \o << DigitChars[(n % 10) + 1] >>

\* The number a resource version was formatted from.
VersionOf(s) ==
    CHOOSE n \in 0..(MaxVersion + 1) : FormatInt(n) = s.ResourceVersion

\* A claimed sandbox that is running and ready: running, or dead once its
\* shutdown time has passed, or paused with the pause flag.
CachedSandbox(namespace, name, rv, shutdownTime, paused) ==
    [ Namespace         |-> namespace,
      Name              |-> name,
      ResourceVersion   |-> rv,
      DeletionTimestamp |-> None,
      ShutdownTime      |-> shutdownTime,
      Phase             |-> SandboxRunning,
      Controller        |-> None,
      Paused            |-> paused,
      PodIP             |-> "10.0.0.1",
      Conditions        |-> << [ Type |-> SandboxConditionReady,
                                 Status |-> ConditionTrue ] >> ]

\* Sandboxes built in memory and not yet created: no resource version.
UnsavedSandboxes ==
    { CachedSandbox(id[1], id[2], << >>, Some(0), FALSE) : id \in Identities }

\* fmt.Sprintf("%s/%s/%s", sbx.Namespace, sbx.Name, resourceVersion)
cacheKey(s) ==
    s.Namespace \o << "/" >> \o s.Name \o << "/" >> \o s.ResourceVersion

\* fmt.Sprintf("%s/%s/", namespace, name)
baseKey(namespace, name) == namespace \o << "/" >> \o name \o << "/" >>

\* strings.HasPrefix
HasPrefix(str, prefix) ==
    /\ Len(str) >= Len(prefix)
    /\ SubSeq(str, 1, Len(prefix)) = prefix

\* sync.Map.Load
Load(m, key) == IF key \in DOMAIN m THEN Some(m[key]) ELSE None

\* sync.Map.Store
Store(m, key, value) ==
    [ k \in DOMAIN m \cup {key} |-> IF k = key THEN value ELSE m[k] ]

\* sync.Map.Delete
Delete(m, key) == [ k \in DOMAIN m \ {key} |-> m[k] ]

\* Store in the place of LoadOrStore: the value is written whether or not
\* the key is present.
LoadOrStore_Overwrite(m, key, value) ==
    [ m |-> Store(m, key, value), actual |-> value, loaded |-> FALSE ]

\* sync.Map.LoadOrStore -> (actual, loaded), with the map after the call.
LoadOrStore(m, key, value) ==
    IF key \in DOMAIN m
    THEN [ m |-> m, actual |-> m[key], loaded |-> TRUE ]
    ELSE [ m |-> Store(m, key, value), actual |-> value, loaded |-> FALSE ]

\* GetSandboxState without the test for an empty resource version.
bypassesCache_Never(s) == FALSE

\* GetSandboxState: resourceVersion == "" -> compute and return directly.
bypassesCache(s) == s.ResourceVersion = << >>

\* GetSandboxState that returns its own computation after LoadOrStore.
storedResult_Own(r, entry) == entry

\* GetSandboxState after LoadOrStore: the value another goroutine stored
\* first when there is one, the own computation otherwise.
storedResult(r, entry) == IF r.loaded THEN r.actual ELSE entry

\* DeleteSandboxCache that compares the key with the base key.
matchesSandbox_Exact(keyStr, namespace, name) ==
    keyStr = baseKey(namespace, name)

\* DeleteSandboxCache: the test the Range callback deletes a key on.
matchesSandbox(keyStr, namespace, name) ==
    HasPrefix(keyStr, baseKey(namespace, name))

\* The resource versions of the sandboxes GetSandboxState is called with.
ResourceVersions == {<< >>} \cup { FormatInt(n) : n \in 1..MaxVersion }

\* The identity a cache key was formatted from.
OwnerOf(key) ==
    CHOOSE id \in Identities :
        \E rv \in ResourceVersions :
            key = id[1] \o << "/" >> \o id[2] \o << "/" >> \o rv

\* The sandboxes GetSandboxState is called with: the objects of the store as
\* they are now, and objects that were never created.
CallSandboxes == { objects[id] : id \in Identities } \cup UnsavedSandboxes

\* The sandboxes the object store writes again; the others keep the
\* resource version they were created with.
UpdatedNames == { << "a" >> }

\* A call is run by the first goroutine that is free.
Free(g) ==
    /\ hist.started < MaxCalls
    /\ calls[g].op = "idle"
    /\ \A h \in Callers : h < g => calls[h].op # "idle"

GetEvent(s, path, computed, value) ==
    [ NoEvent EXCEPT !.kind = "get", !.sbx = Some(s), !.key = cacheKey(s),
                     !.path = path, !.computed = computed,
                     !.value = Some(value) ]

\* History after `value` was inserted under the key: the key is no longer
\* one stored before an invalidation, and the pair is an insert made since
\* the key was last absent.
Inserted(h, key, value) ==
    [h EXCEPT !.old = @ \ {key},
              !.canon = @ \cup { << key, value >> }]

\* History after the key was deleted.
Deleted(h, key) ==
    [h EXCEPT !.old = @ \ {key},
              !.canon = { p \in @ : p[1] # key }]

InitCache ==
    /\ objects \in { [ id \in Identities |->
                         CachedSandbox(id[1], id[2], FormatInt(1), sh, FALSE) ] :
                     sh \in {None, Some(0)} }
    /\ cache = EmptyMap
    /\ calls = [ g \in Callers |-> IdleCall ]
    /\ ev = NoEvent
    /\ hist = EmptyHist
    /\ now = 0
    /\ ClaimIdle
    /\ CondIdle
    /\ ClassifyIdle
    /\ CountIdle
    /\ RaceIdle
    /\ WebhookIdle
    /\ ReactorIdle

cacheFrame == << claimVars, condVars, classifyVars, countVars, raceVars, webhookVars, reactorVars >>

\* GetSandboxState on a sandbox without resource version.
GetBypass(g) ==
    /\ Free(g)
    /\ \E s \in CallSandboxes :
          /\ bypassesCache(s)
          /\ LET e == computeSandboxState(s, now)
             IN  ev' = [ GetEvent(s, "bypass", Some(e), e) EXCEPT !.key = << >> ]
    /\ hist' = [hist EXCEPT !.started = @ + 1]
    /\ UNCHANGED << objects, cache, calls, now, cacheFrame >>

\* GetSandboxState whose Load finds the key.
GetHit(g) ==
    /\ Free(g)
    /\ \E s \in CallSandboxes :
          /\ ~bypassesCache(s)
          /\ Load(cache, cacheKey(s)) # None
          /\ LET e == Load(cache, cacheKey(s))[1]
             IN  ev' = GetEvent(s, "hit", None, e)
          /\ hist' = [hist EXCEPT !.started = @ + 1,
                                  !.final = @ \ {<< s.Namespace, s.Name >>}]
    /\ UNCHANGED << objects, cache, calls, now, cacheFrame >>

\* GetSandboxState whose Load misses: the state is computed, LoadOrStore is
\* still to come.
GetMiss(g) ==
    /\ Free(g)
    /\ \E s \in CallSandboxes :
          /\ ~bypassesCache(s)
          /\ Load(cache, cacheKey(s)) = None
          /\ calls' = [calls EXCEPT ![g] =
                          [ IdleCall EXCEPT !.op = "get", !.sbx = Some(s),
                                !.key = cacheKey(s),
                                !.entry = Some(computeSandboxState(s, now)) ]]
          /\ hist' = [hist EXCEPT !.started = @ + 1,
                                  !.final = @ \ {<< s.Namespace, s.Name >>}]
    /\ ev' = NoEvent
    /\ UNCHANGED << objects, cache, now, cacheFrame >>

\* The LoadOrStore of a call that missed, and its return.
GetStore(g) ==
    /\ calls[g].op = "get"
    /\ LET s     == calls[g].sbx[1]
           entry == calls[g].entry[1]
           r     == LoadOrStore(cache, calls[g].key, entry)
           value == storedResult(r, entry)
       IN  /\ cache' = r.m
           /\ ev' = GetEvent(s, IF r.loaded THEN "lost" ELSE "stored",
                             Some(entry), value)
           /\ hist' = IF r.loaded THEN hist
                                   ELSE Inserted(hist, calls[g].key, entry)
    /\ calls' = [calls EXCEPT ![g] = IdleCall]
    /\ UNCHANGED << objects, now, cacheFrame >>

\* DeleteSandboxCache with an empty namespace or name returns at once.
DeleteNoop(g) ==
    /\ Free(g)
    /\ \E namespace \in Namespaces \cup {<< >>}, name \in Names \cup {<< >>} :
          /\ namespace = << >> \/ name = << >>
          /\ ev' = [ NoEvent EXCEPT !.kind = "delete",
                                    !.namespace = namespace, !.name = name ]
    /\ hist' = [hist EXCEPT !.started = @ + 1]
    /\ UNCHANGED << objects, cache, calls, now, cacheFrame >>

\* DeleteSandboxCache starts its Range: the keys that are present and match
\* will be visited; the keys of the identity stored so far become old.
DeleteStart(g) ==
    /\ Free(g)
    /\ \E namespace \in Namespaces, name \in Names :
          /\ calls' = [calls EXCEPT ![g] =
                [ IdleCall EXCEPT !.op = "delete",
                      !.namespace = namespace, !.name = name,
                      !.todo = { k \in DOMAIN cache :
                                    matchesSandbox(k, namespace, name) } ]]
          /\ hist' = [hist EXCEPT
                !.started = @ + 1,
                !.old = @ \cup { k \in DOMAIN cache :
                                    OwnerOf(k) = << namespace, name >> },
                !.final = IF name \in UpdatedNames
                          THEN @
                          ELSE @ \cup {<< namespace, name >>}]
    /\ ev' = NoEvent
    /\ UNCHANGED << objects, cache, now, cacheFrame >>

\* The Range callback on one key that matches: the key is deleted.  Keys
\* that do not match are visited without effect.  A key stored after the
\* Range began may be visited or not; no key is visited twice.
DeleteVisit(g) ==
    /\ calls[g].op = "delete"
    /\ \E k \in DOMAIN cache \ calls[g].seen :
          /\ matchesSandbox(k, calls[g].namespace, calls[g].name)
          /\ cache' = Delete(cache, k)
          /\ calls' = [ h \in Callers |->
                          IF h = g
                          THEN [calls[h] EXCEPT !.todo = @ \ {k},
                                                !.seen = @ \cup {k}]
                          ELSE [calls[h] EXCEPT !.todo = @ \ {k}] ]
          /\ hist' = Deleted(hist, k)
    /\ ev' = NoEvent
    /\ UNCHANGED << objects, now, cacheFrame >>

\* The Range is over once every key it had to visit was visited or deleted
\* by another call; DeleteSandboxCache returns.
DeleteEnd(g) ==
    /\ calls[g].op = "delete"
    /\ calls[g].todo = {}
    /\ ev' = [ NoEvent EXCEPT !.kind = "delete",
                              !.namespace = calls[g].namespace,
                              !.name = calls[g].name,
                              !.removed = Cardinality(calls[g].seen) ]
    /\ calls' = [calls EXCEPT ![g] = IdleCall]
    /\ UNCHANGED << objects, cache, hist, now, cacheFrame >>

\* The object store writes a sandbox: next resource version, pause flag
\* flipped.
UpdateSandbox ==
    /\ \E id \in Identities :
          /\ id[2] \in UpdatedNames
          /\ VersionOf(objects[id]) < MaxVersion
          /\ objects' = [objects EXCEPT ![id] =
                [@ EXCEPT !.ResourceVersion = FormatInt(VersionOf(objects[id]) + 1),
                          !.Paused = ~@]]
    /\ ev' = NoEvent
    /\ UNCHANGED << cache, calls, hist, now, cacheFrame >>

CacheTick ==
    /\ now < MaxCacheTime
    /\ now' = now + 1
    /\ ev' = NoEvent
    /\ UNCHANGED << objects, cache, calls, hist, cacheFrame >>

NextCache ==
    \/ \E g \in Callers : GetBypass(g)
    \/ \E g \in Callers : GetHit(g)
    \/ \E g \in Callers : GetMiss(g)
    \/ \E g \in Callers : GetStore(g)
    \/ \E g \in Callers : DeleteNoop(g)
    \/ \E g \in Callers : DeleteStart(g)
    \/ \E g \in Callers : DeleteVisit(g)
    \/ \E g \in Callers : DeleteEnd(g)
    \/ UpdateSandbox
    \/ CacheTick

SpecCache == InitCache /\ [][NextCache]_vars

\* ------------------------------------------- invalidation by identity
\* DeleteSandboxCache run from its first to its last line with no other
\* call under way, on caches filled by GetSandboxState.  Namespace and name
\* are the strings of the Sandbox object handed in; neither function
\* validates them, and an object built in memory or kept by the fake client
\* set may carry any string.
InvalidatedNames == { << "a" >>, << "a", "b" >>, << "a", "/", "b" >> }

InvalidatedIdentities == Namespaces \X InvalidatedNames

InvalidatedSandboxes ==
    { CachedSandbox(id[1], id[2], FormatInt(n), None, FALSE) :
        id \in InvalidatedIdentities, n \in 1..MaxVersion }

\* DeleteSandboxCache(namespace, name): the cache after the Range has
\* visited every key.
DeleteSandboxCache(m, namespace, name) ==
    IF namespace = << >> \/ name = << >>
    THEN m
    ELSE [ k \in { key \in DOMAIN m : ~matchesSandbox(key, namespace, name) }
             |-> m[k] ]

InitInvalidate ==
    /\ cache = EmptyMap
    /\ ev = NoEvent
    /\ objects = EmptyMap
    /\ calls = EmptyMap
    /\ hist = EmptyHist
    /\ now = 0
    /\ ClaimIdle
    /\ CondIdle
    /\ ClassifyIdle
    /\ CountIdle
    /\ RaceIdle
    /\ WebhookIdle
    /\ ReactorIdle

\* GetSandboxState on a sandbox with a resource version, from Load to
\* return.
GetSandboxState ==
    /\ \E s \in InvalidatedSandboxes :
          LET entry == computeSandboxState(s, now)
              hit   == Load(cache, cacheKey(s))
              r     == LoadOrStore(cache, cacheKey(s), entry)
          IN  IF hit # None
              THEN /\ cache' = cache
                   /\ ev' = GetEvent(s, "hit", None, hit[1])
              ELSE /\ cache' = r.m
                   /\ ev' = GetEvent(s, "stored", Some(entry),
                                     storedResult(r, entry))
    /\ UNCHANGED << objects, calls, hist, now, cacheFrame >>

\* DeleteSandboxCache on any namespace and name, the empty strings included.
InvalidateSandbox ==
    /\ \E namespace \in Namespaces \cup {<< >>},
          name \in InvalidatedNames \cup {<< >>} :
          /\ cache' = DeleteSandboxCache(cache, namespace, name)
          /\ ev' = [ NoEvent EXCEPT
                       !.kind = "delete", !.namespace = namespace, !.name = name,
                       !.removed = Cardinality(DOMAIN cache)
                                   - Cardinality(DOMAIN cache') ]
    /\ UNCHANGED << objects, calls, hist, now, cacheFrame >>

NextInvalidate ==
    \/ GetSandboxState
    \/ InvalidateSandbox

SpecInvalidate == InitInvalidate /\ [][NextInvalidate]_vars

\* ---------------------------------------------------- claimed sandboxes
\* countClaimedSandboxes on the sandboxes of the object store.

\* The claim of TestCommonControl_CountClaimedSandboxes.
CountedClaim ==
    [ Namespace |-> "default", Name |-> "test-claim", UID |-> "test-claim-uid" ]

\* Values of the labels LabelSandboxClaimedBy and LabelSandboxClaimedByName:
\* both of the claim, both of another claim, one of each, one only, none.
ClaimLabels ==
    { [ ClaimedBy |-> Some("test-claim-uid"), ClaimedByName |-> Some("test-claim") ],
      [ ClaimedBy |-> Some("other-uid"),      ClaimedByName |-> Some("other-claim") ],
      [ ClaimedBy |-> Some("test-claim-uid"), ClaimedByName |-> Some("other-claim") ],
      [ ClaimedBy |-> Some("other-uid"),      ClaimedByName |-> Some("test-claim") ],
      [ ClaimedBy |-> Some("test-claim-uid"), ClaimedByName |-> None ],
      [ ClaimedBy |-> None,                   ClaimedByName |-> None ] }

\* The sandboxes that can be in the store: any labels and a live or a
\* failed phase in the claim's namespace, the claim's labels in another.
StoredSandboxes ==
    [ Name      : 1..MaxSandboxes,
      Namespace : {"default"},
      Labels    : ClaimLabels,
      Phase     : {SandboxRunning, SandboxFailed} ]
    \cup
    [ Name      : 1..MaxSandboxes,
      Namespace : {"other"},
      Labels    : { [ ClaimedBy |-> Some("test-claim-uid"),
                      ClaimedByName |-> Some("test-claim") ] },
      Phase     : {SandboxRunning} ]

\* The list call with the name label only.
listClaimedSandboxes_NameOnly(list, c) ==
    { s \in list :
        /\ s.Namespace = c.Namespace
        /\ s.Labels.ClaimedByName = Some(c.Name) }

\* The list call of countClaimedSandboxes: the claim's namespace and both
\* labels.
listClaimedSandboxes(list, c) ==
    { s \in list :
        /\ s.Namespace = c.Namespace
        /\ s.Labels.ClaimedBy = Some(c.UID)
        /\ s.Labels.ClaimedByName = Some(c.Name) }

InitCount ==
    /\ sandboxes = {}
    /\ counted = NoCount
    /\ now = 0
    /\ ClaimIdle
    /\ CondIdle
    /\ ClassifyIdle
    /\ CacheIdle
    /\ RaceIdle
    /\ WebhookIdle
    /\ ReactorIdle

countFrame ==
    << claim, sandboxSet, status, now, last, claimExists, result,
       condVars, classifyVars, cacheVars, raceVars, webhookVars, reactorVars >>

\* countClaimedSandboxes(ctx, claim) -> the length of the list.
CountClaimed ==
    LET n == Cardinality(listClaimedSandboxes(sandboxes, CountedClaim))
    IN  /\ counted' = [ called |-> TRUE, count |-> n ]
        /\ claimedSandboxes' = n
        /\ UNCHANGED << sandboxes, countFrame >>

\* A sandbox is created.
CreateSandbox ==
    /\ \E s \in StoredSandboxes :
          /\ \A t \in sandboxes : t.Name # s.Name \/ t.Namespace # s.Namespace
          /\ Cardinality(sandboxes) < MaxSandboxes
          /\ sandboxes' = sandboxes \cup {s}
    /\ counted' = NoCount
    /\ UNCHANGED << claimedSandboxes, countFrame >>

\* A sandbox is deleted.
DeleteSandbox ==
    /\ \E s \in sandboxes : sandboxes' = sandboxes \ {s}
    /\ counted' = NoCount
    /\ UNCHANGED << claimedSandboxes, countFrame >>

NextCount ==
    \/ CountClaimed
    \/ CreateSandbox
    \/ DeleteSandbox

SpecCount == InitCount /\ [][NextCount]_vars

\* ------------------------------------------------- overlapping passes
\* Reconciliation passes of several workers on one claim.  A pass loads the
\* claim with its status; later it looks up the SandboxSet, calls
\* CalculateClaimStatus on what it loaded, runs the Ensure* step and writes
\* the status with the resource version it loaded.  The object store
\* gives the claim a new resource version with every write and rejects a
\* status write whose version is not the stored one: the version a pass
\* loaded is current as long as nothing has been written since.
Workers == {1, 2}

RacingClaims ==
    [ Generation        : {1},
      Replicas          : {Some(MaxReplicas)},
      ClaimTimeout      : {None, Some(1)},
      TTLAfterCompleted : {None, Some(1)} ]

IdlePass ==
    [ pc |-> "idle", claim |-> NoCall.claim, status |-> EmptyStatus,
      current |-> FALSE ]

\* An object store that takes every status write, whatever its version.
acceptsWrite_Always(p) == TRUE

\* Optimistic concurrency of the object store: the write of a pass is
\* taken only when the version the pass loaded is still the stored one.
acceptsWrite(p) == p.current

\* The passes after a write to the claim by worker w (0: by a user): the
\* version every other pass has loaded is stale from now on.
Outdated(ps, w) ==
    [ v \in DOMAIN ps |->
        IF v = w THEN IdlePass ELSE [ ps[v] EXCEPT !.current = FALSE ] ]

\* What a pass computes from what it loaded: the result of
\* CalculateClaimStatus followed by the Ensure* step, or by nothing with
\* skipBusinessLogic.
PassResult(p, sbs, clock) ==
    LET r == CalculateClaimStatus(p.claim, sbs, p.status, clock)
    IN  IF r.skip
        THEN SkipBusinessLogic(p.status.Phase, p.claim, r.newStatus, clock)
        ELSE [ ensured |-> p.status.Phase ]
                @@ Ensure(p.status.Phase, p.claim, r.newStatus, clock)

InitRace ==
    /\ claim \in RacingClaims
    /\ sandboxSet \in {None, Some(TemplateName)}
    /\ status = EmptyStatus
    /\ now = 0
    /\ last = NoCall
    /\ claimedSandboxes = 0
    /\ claimExists = TRUE
    /\ result = NoPass
    /\ passes = [ w \in Workers |-> IdlePass ]
    /\ done = NoDone
    /\ CondIdle
    /\ ClassifyIdle
    /\ CacheIdle
    /\ CountIdle
    /\ WebhookIdle
    /\ ReactorIdle

raceFrame ==
    << last, result, condVars, classifyVars, cacheVars, countVars, webhookVars, reactorVars >>

\* A worker starts a pass and loads the claim; of the idle workers the
\* lowest one takes the pass.
PassLoad(w) ==
    /\ passes[w].pc = "idle"
    /\ \A v \in Workers : v < w => passes[v].pc # "idle"
    /\ claimExists
    /\ passes' = [passes EXCEPT ![w] =
                     [ pc |-> "loaded", claim |-> claim,
                       status |-> status, current |-> TRUE ]]
    /\ done' = NoDone
    /\ UNCHANGED << claim, sandboxSet, status, now, claimedSandboxes,
                    claimExists >>
    /\ UNCHANGED raceFrame

\* A worker starts a pass for a claim that is not in the object store.
PassNotFound(w) ==
    /\ passes[w].pc = "idle"
    /\ \A v \in Workers : v < w => passes[v].pc # "idle"
    /\ ~claimExists
    /\ done' = [NoDone EXCEPT !.kind = "notFound", !.worker = w]
    /\ UNCHANGED << claim, sandboxSet, status, now, claimedSandboxes,
                    claimExists, passes >>
    /\ UNCHANGED raceFrame

\* The pass computes its result and persists it: the claim is deleted, or
\* the status is written when it differs from the loaded one.  The write
\* fails when the claim is gone or the loaded version is stale.
PassFinish(w) ==
    LET p == passes[w]
        e == PassResult(p, sandboxSet, now)
        kind == IF e.delete THEN "deleted"
                ELSE IF e.newStatus = p.status THEN "unchanged"
                ELSE IF ~claimExists THEN "gone"
                ELSE IF acceptsWrite(p) THEN "written"
                ELSE "conflict"
    IN  /\ p.pc = "loaded"
        /\ status' = IF kind = "written" THEN e.newStatus ELSE status
        /\ claimExists' = IF kind = "deleted" THEN FALSE ELSE claimExists
        /\ passes' = IF kind = "written" THEN Outdated(passes, w)
                     ELSE [passes EXCEPT ![w] = IdlePass]
        /\ done' = [ kind |-> kind, worker |-> w,
                     err |-> kind \in {"gone", "conflict"},
                     loaded |-> p.status, computed |-> e.newStatus ]
        /\ UNCHANGED << claim, sandboxSet, now, claimedSandboxes >>
        /\ UNCHANGED raceFrame

\* The list call of countClaimedSandboxes fails in a pass that persists
\* what CalculateClaimStatus computed before it returns the error.
PassListError_Persist(w) ==
    LET p == passes[w]
        r == CalculateClaimStatus(p.claim, sandboxSet, p.status, now)
    IN  /\ p.pc = "loaded"
        /\ p.status.Phase = SandboxClaimPhaseClaiming
        /\ ~r.skip
        /\ status' = r.newStatus
        /\ passes' = [passes EXCEPT ![w] = IdlePass]
        /\ done' = [ kind |-> "listError", worker |-> w, err |-> TRUE,
                     loaded |-> p.status, computed |-> r.newStatus ]
        /\ UNCHANGED << claim, sandboxSet, now, claimedSandboxes,
                        claimExists >>
        /\ UNCHANGED raceFrame

\* The list call of countClaimedSandboxes fails in EnsureClaimClaiming:
\* the pass returns the error and writes nothing.
PassListError(w) ==
    LET p == passes[w]
        r == CalculateClaimStatus(p.claim, sandboxSet, p.status, now)
    IN  /\ p.pc = "loaded"
        /\ p.status.Phase = SandboxClaimPhaseClaiming
        /\ ~r.skip
        /\ passes' = [passes EXCEPT ![w] = IdlePass]
        /\ done' = [ kind |-> "listError", worker |-> w, err |-> TRUE,
                     loaded |-> p.status, computed |-> r.newStatus ]
        /\ UNCHANGED << claim, sandboxSet, status, now, claimedSandboxes,
                        claimExists >>
        /\ UNCHANGED raceFrame

\* Between the steps of the passes: the clock advances, one more sandbox
\* is bound to the claim, the SandboxSet is deleted, the claim's spec is
\* updated (new generation, new version).
RaceTick ==
    /\ now < MaxRaceTime
    /\ now' = now + 1
    /\ done' = NoDone
    /\ UNCHANGED << claim, sandboxSet, status, claimedSandboxes, claimExists,
                    passes >>
    /\ UNCHANGED raceFrame

RaceSandboxesChange ==
    /\ claimedSandboxes < MaxReplicas
    /\ claimedSandboxes' = claimedSandboxes + 1
    /\ done' = NoDone
    /\ UNCHANGED << claim, sandboxSet, status, now, claimExists, passes >>
    /\ UNCHANGED raceFrame

RaceSandboxSetChange ==
    /\ sandboxSet # None
    /\ sandboxSet' = None
    /\ done' = NoDone
    /\ UNCHANGED << claim, status, now, claimedSandboxes, claimExists,
                    passes >>
    /\ UNCHANGED raceFrame

RaceUpdateClaim ==
    /\ claimExists
    /\ claim.Generation < MaxGeneration
    /\ claim' = [claim EXCEPT !.Generation = @ + 1]
    /\ passes' = Outdated(passes, 0)
    /\ done' = NoDone
    /\ UNCHANGED << sandboxSet, status, now, claimedSandboxes, claimExists >>
    /\ UNCHANGED raceFrame

NextRace ==
    \/ \E w \in Workers : PassLoad(w)
    \/ \E w \in Workers : PassNotFound(w)
    \/ \E w \in Workers : PassFinish(w)
    \/ \E w \in Workers : PassListError(w)
    \/ RaceTick
    \/ RaceSandboxesChange
    \/ RaceSandboxSetChange
    \/ RaceUpdateClaim

SpecRace == InitRace /\ [][NextRace]_vars

\* -------------------------------------------------- admission webhook
\* SandboxClaimValidatingHandler on the admission requests for one claim.
OperationCreate == "CREATE"
OperationUpdate == "UPDATE"
OperationDelete == "DELETE"
OperationConnect == "CONNECT"

StatusBadRequest == 400

\* The SandboxClaim objects of the requests: the spec fields a user sets.
AdmittedClaims ==
    [ Replicas     : ReplicasValues,
      ClaimTimeout : {None, Some(1)} ]

\* admission.Allowed, admission.Denied and admission.Errored.
Allowed(message) == [ Allowed |-> TRUE, Code |-> 200, Message |-> message ]
Denied(message) == [ Allowed |-> FALSE, Code |-> 403, Message |-> message ]
Errored(code, message) == [ Allowed |-> FALSE, Code |-> code, Message |-> message ]

\* An admission request: the operation, the new and the old object as
\* sent, and whether the decoder can decode each of them.
Request(operation, object, oldObject, decodes, oldDecodes) ==
    [ Operation |-> operation, Object |-> object, OldObject |-> oldObject,
      decodes |-> decodes, oldDecodes |-> oldDecodes ]

handleCreate(req) ==
    IF ~req.decodes
    THEN Errored(StatusBadRequest, << "decode" >>)
    ELSE Allowed(<< >>)

\* handleUpdate that compares Spec.Replicas as set, without the default.
handleUpdate_NoDefault(req) ==
    IF ~req.oldDecodes
    THEN Errored(StatusBadRequest, << "failed to decode old object: %w" >>)
    ELSE IF ~req.decodes
    THEN Errored(StatusBadRequest, << "failed to decode new object: %w" >>)
    ELSE IF req.OldObject[1].Replicas # req.Object[1].Replicas
    THEN Denied(<< "spec.replicas is immutable" >>)
    ELSE Allowed(<< >>)

handleUpdate(req) ==
    IF ~req.oldDecodes
    THEN Errored(StatusBadRequest, << "failed to decode old object: %w" >>)
    ELSE IF ~req.decodes
    THEN Errored(StatusBadRequest, << "failed to decode new object: %w" >>)
    ELSE LET oldClaim == req.OldObject[1]
             newClaim == req.Object[1]
             oldReplicas == IF oldClaim.Replicas # None
                            THEN oldClaim.Replicas[1] ELSE 1
             newReplicas == IF newClaim.Replicas # None
                            THEN newClaim.Replicas[1] ELSE 1
         IN  IF oldReplicas # newReplicas
             THEN Denied(<< "spec.replicas is immutable, cannot change from %d to %d",
                            oldReplicas, newReplicas >>)
             ELSE Allowed(<< >>)

Handle(req) ==
    CASE req.Operation = OperationCreate -> handleCreate(req)
      [] req.Operation = OperationUpdate -> handleUpdate(req)
      [] req.Operation = OperationDelete -> Allowed(<< >>)
      [] OTHER -> Errored(StatusBadRequest, << "unsupported operation: %s",
                                              req.Operation >>)

\* The record of a request and the response to it.
Admission(req, resp) ==
    [ Operation |-> req.Operation, Object |-> req.Object,
      OldObject |-> req.OldObject,
      decodes |-> req.decodes, oldDecodes |-> req.oldDecodes,
      Allowed |-> resp.Allowed, Code |-> resp.Code, Message |-> resp.Message ]

InitWebhook ==
    /\ apiClaim = None
    /\ admission = NoAdmission
    /\ firstReplicas = 0
    /\ now = 0
    /\ ClaimIdle
    /\ CondIdle
    /\ ClassifyIdle
    /\ CacheIdle
    /\ CountIdle
    /\ RaceIdle
    /\ ReactorIdle

webhookFrame ==
    << now, claimVars, condVars, classifyVars, cacheVars, countVars, raceVars,
       reactorVars >>

\* The API server sends a create request to the handler and stores the
\* object when the response allows it.
AdmitCreate ==
    /\ apiClaim = None
    /\ \E c \in AdmittedClaims, decodes \in BOOLEAN :
          LET req == Request(OperationCreate, Some(c), None, decodes, FALSE)
              resp == Handle(req)
          IN  /\ admission' = Admission(req, resp)
              /\ apiClaim' = IF resp.Allowed THEN Some(c) ELSE apiClaim
              /\ firstReplicas' = IF resp.Allowed THEN getDesiredReplicas(c)
                                  ELSE firstReplicas
    /\ UNCHANGED webhookFrame

\* An update request carries the stored object as the old one; the new
\* object replaces it when the response allows it.
AdmitUpdate ==
    /\ apiClaim # None
    /\ \E c \in AdmittedClaims, decodes \in BOOLEAN, oldDecodes \in BOOLEAN :
          LET req == Request(OperationUpdate, Some(c), apiClaim, decodes, oldDecodes)
              resp == Handle(req)
          IN  /\ admission' = Admission(req, resp)
              /\ apiClaim' = IF resp.Allowed THEN Some(c) ELSE apiClaim
    /\ UNCHANGED firstReplicas
    /\ UNCHANGED webhookFrame

\* A delete request carries the stored object as the old one.
AdmitDelete ==
    /\ apiClaim # None
    /\ LET req == Request(OperationDelete, None, apiClaim, FALSE, TRUE)
           resp == Handle(req)
       IN  /\ admission' = Admission(req, resp)
           /\ apiClaim' = IF resp.Allowed THEN None ELSE apiClaim
           /\ firstReplicas' = IF resp.Allowed THEN 0 ELSE firstReplicas
    /\ UNCHANGED webhookFrame

\* A request with another operation changes nothing in the store.
AdmitConnect ==
    /\ LET req == Request(OperationConnect, None, None, FALSE, FALSE)
           resp == Handle(req)
       IN  admission' = Admission(req, resp)
    /\ UNCHANGED << apiClaim, firstReplicas >>
    /\ UNCHANGED webhookFrame

NextWebhook ==
    \/ AdmitCreate
    \/ AdmitUpdate
    \/ AdmitDelete
    \/ AdmitConnect

SpecWebhook == InitWebhook /\ [][NextWebhook]_vars

\* ------------------------------------------------- passes on request
\* The scheduler runs a pass on the claim when one is requested: no pass
\* has looked at the claim since the last event (its creation, a restart
\* of the controller, a change of the sandboxes or of the SandboxSet), or
\* the latest pass asked for a requeue or returned an error.
Requested ==
    \/ result = NoPass
    \/ result.requeue # "NoRequeue"
    \/ result.err

LiveClaims ==
    [ Generation        : {1},
      Replicas          : {None, Some(MaxReplicas)},
      ClaimTimeout      : {None} \cup { Some(d) : d \in 0..1 },
      TTLAfterCompleted : {None, Some(1)} ]

InitLive ==
    /\ claim \in LiveClaims
    /\ sandboxSet \in {None, Some(TemplateName)}
    /\ status = EmptyStatus
    /\ now = 0
    /\ last = NoCall
    /\ claimedSandboxes = 0
    /\ claimExists = TRUE
    /\ result = NoPass
    /\ AuxIdle

LiveNotFound == Requested /\ ReconcileNotFound

LiveSkip == Requested /\ ReconcileSkip

LiveEnsure == Requested /\ ReconcileEnsure

LiveListError == Requested /\ ReconcileListError

\* A requested pass of any kind.
LivePass ==
    \/ LiveNotFound
    \/ LiveSkip
    \/ LiveEnsure
    \/ LiveListError

\* Time passes; nothing the controller holds changes with it.
LiveTick ==
    /\ now < MaxTime
    /\ now' = now + 1
    /\ UNCHANGED << claim, sandboxSet, status, last, storeVars >>
    /\ UNCHANGED auxVars

\* The controller process restarts: what it held in memory is lost, the
\* persisted claim is not, and the claim is handed to it again.
LiveRestart ==
    /\ result # NoPass
    /\ result' = NoPass
    /\ last' = NoCall
    /\ UNCHANGED << claim, sandboxSet, status, now, claimedSandboxes, claimExists >>
    /\ UNCHANGED auxVars

NextLive ==
    \/ LiveNotFound
    \/ LiveSkip
    \/ LiveEnsure
    \/ LiveListError
    \/ LiveTick
    \/ LiveRestart
    \/ SandboxesChange
    \/ StoreSandboxSetChange

\* Every requested pass is run in the end and the clock goes on.
SpecLive ==
    /\ InitLive
    /\ [][NextLive]_vars
    /\ WF_vars(LivePass)
    /\ WF_vars(LiveTick)

\* ------------------------------------------- resource-version reactor
\* The fake client set of NewFakeClientSet: create and update requests pass
\* the reactors of AddResourceVersionReactor, which return handled = false,
\* and then reach the object tracker of the fake client, which stores the
\* object as it is.  A step is the reactor of one request (with its one
\* atomic.AddInt64) or the tracker's handling of one request.
ReactorClients == {1, 2}

\* The resource versions a test may put on an object before creating it.
PresetVersions ==
    {<< >>, << "0" >>} \cup { FormatInt(n) : n \in 1..(MaxVersion + 1) }

IdleRequest == [ op |-> "idle", object |-> None, preset |-> << >> ]

RequestEvent(kind, object, preset, previous, err) ==
    [ kind |-> kind, object |-> Some(object), preset |-> preset,
      previous |-> previous, err |-> err ]

\* The "create" reactor: a version from the counter when the object has
\* none or "0", the object's own version otherwise.
createReactor(counter, object) ==
    LET rv == object.ResourceVersion
        newRV == counter + 1
    IN  IF rv = << >> \/ rv = << "0" >>
        THEN [ counter |-> newRV, fresh |-> TRUE,
               object  |-> [object EXCEPT !.ResourceVersion = FormatInt(newRV)] ]
        ELSE [ counter |-> counter, fresh |-> FALSE, object |-> object ]

\* The "update" reactor: always the next version of the counter.
updateReactor(counter, object) ==
    LET newRV == counter + 1
    IN  [ counter |-> newRV, fresh |-> TRUE,
          object  |-> [object EXCEPT !.ResourceVersion = FormatInt(newRV)] ]

InitReactor ==
    /\ resourceVersionCounter = 1
    /\ assigned = << >>
    /\ objects = EmptyMap
    /\ calls = [ g \in ReactorClients |-> IdleRequest ]
    /\ ev = NoEvent
    /\ cache = EmptyMap
    /\ hist = EmptyHist
    /\ now = 0
    /\ ClaimIdle
    /\ CondIdle
    /\ ClassifyIdle
    /\ CountIdle
    /\ RaceIdle
    /\ WebhookIdle

reactorFrame ==
    << cache, hist, now, claimVars, condVars, classifyVars, countVars, raceVars,
       webhookVars >>

\* A client sends a create request; the reactor runs.
ReactCreate(g) ==
    /\ calls[g].op = "idle"
    /\ \E id \in Identities, preset \in PresetVersions :
          LET r == createReactor(resourceVersionCounter,
                       CachedSandbox(id[1], id[2], preset, None, FALSE))
          IN  /\ r.counter <= MaxVersion + 1
              /\ resourceVersionCounter' = r.counter
              /\ assigned' = IF r.fresh THEN Append(assigned, r.counter)
                                        ELSE assigned
              /\ calls' = [calls EXCEPT ![g] =
                    [ op |-> "create", object |-> Some(r.object),
                      preset |-> preset ]]
    /\ ev' = NoEvent
    /\ UNCHANGED << objects, reactorFrame >>

\* A client sends an update request for an object it has read, with the
\* pause flag changed; the reactor runs.
ReactUpdate(g) ==
    /\ calls[g].op = "idle"
    /\ \E id \in DOMAIN objects :
          LET r == updateReactor(resourceVersionCounter,
                       [objects[id] EXCEPT !.Paused = ~@])
          IN  /\ r.counter <= MaxVersion + 1
              /\ resourceVersionCounter' = r.counter
              /\ assigned' = Append(assigned, r.counter)
              /\ calls' = [calls EXCEPT ![g] =
                    [ op |-> "update", object |-> Some(r.object),
                      preset |-> objects[id].ResourceVersion ]]
    /\ ev' = NoEvent
    /\ UNCHANGED << objects, reactorFrame >>

\* The tracker handles a request the reactor has let through: a create of
\* an object that exists and an update of one that does not are refused,
\* otherwise the object is stored with the version it carries.
TrackerApply(g) ==
    /\ calls[g].op # "idle"
    /\ LET object == calls[g].object[1]
           id == << object.Namespace, object.Name >>
           exists == id \in DOMAIN objects
           refused == ( calls[g].op = "create" ) = exists
           previous == IF exists THEN Some(cacheKey(objects[id])) ELSE None
       IN  /\ objects' = IF refused THEN objects ELSE Store(objects, id, object)
           /\ ev' = RequestEvent(calls[g].op, object, calls[g].preset,
                                 previous, refused)
    /\ calls' = [calls EXCEPT ![g] = IdleRequest]
    /\ UNCHANGED << resourceVersionCounter, assigned, reactorFrame >>

NextReactor ==
    \/ \E g \in ReactorClients : ReactCreate(g)
    \/ \E g \in ReactorClients : ReactUpdate(g)
    \/ \E g \in ReactorClients : TrackerApply(g)

SpecReactor == InitReactor /\ [][NextReactor]_vars

\* ------------------------------------------------------------ properties
PhaseRank(p) ==
    CASE p = SandboxClaimPhaseUnset     -> 0
      [] p = SandboxClaimPhaseClaiming  -> 1
      [] p = SandboxClaimPhaseCompleted -> 2

\* The status has a condition of the given type with status True.
ConditionIsTrue(st, type) ==
    \E i \in 1..Len(st.Conditions) :
        /\ st.Conditions[i].Type = type
        /\ st.Conditions[i].Status = ConditionTrue

\* The status has a condition of the given type, status True, and reason.
ConditionHasReason(st, type, reason) ==
    \E i \in 1..Len(st.Conditions) :
        /\ st.Conditions[i].Type = type
        /\ st.Conditions[i].Status = ConditionTrue
        /\ st.Conditions[i].Reason = reason

\* The desired replica count of the last call's claim, 1 when unset.
LastDesired ==
    IF last.claim.Replicas = None THEN 1 ELSE last.claim.Replicas[1]

\* In the last call a timeout was configured, the start time was set and
\* now - claimStartTime >= timeout.
LastTimeoutElapsed ==
    /\ last.claim.ClaimTimeout # None
    /\ last.status.ClaimStartTime # None
    /\ last.now - last.status.ClaimStartTime[1] >= last.claim.ClaimTimeout[1]

\* C1: across any sequence of CalculateClaimStatus calls, with the pool, the
\* timeout, the clock and claimedReplicas changing in between, the phase
\* never moves down the order unset < Claiming < Completed; in particular a
\* Completed phase stays Completed.
C1_MonotonicPhase ==
    [][ PhaseRank(status.Phase) <= PhaseRank(status'.Phase) ]_vars

\* A call was made on a Completed status while the pool was absent.
C1_Witness ==
    /\ last.called
    /\ last.status.Phase = SandboxClaimPhaseCompleted
    /\ last.sandboxSet = None
    /\ status.Phase = SandboxClaimPhaseCompleted

\* C2: a call in phase Claiming with the pool present, a timeout configured
\* and now - claimStartTime >= timeout returns phase Completed and skip=true,
\* the completion timestamp set to now, a message recording the claimed and
\* desired counts, a TimedOut condition with status True and reason
\* "ClaimTimeoutReached", and a Completed condition with status True.
C2_TimeoutTransition ==
    ( /\ last.called
      /\ last.status.Phase = SandboxClaimPhaseClaiming
      /\ last.sandboxSet # None
      /\ LastTimeoutElapsed )
    => /\ last.newStatus.Phase = SandboxClaimPhaseCompleted
       /\ last.skip
       /\ last.newStatus.CompletionTime = Some(last.now)
       /\ Len(last.newStatus.Message) = 4
       /\ last.newStatus.Message[3] = last.status.ClaimedReplicas
       /\ last.newStatus.Message[4] = LastDesired
       /\ ConditionHasReason(last.newStatus, SandboxClaimConditionTimedOut,
                             "ClaimTimeoutReached")
       /\ ConditionIsTrue(last.newStatus, SandboxClaimConditionCompleted)

\* A call timed out exactly at the deadline (elapsed = timeout > 0).
C2_Witness ==
    /\ last.called
    /\ last.status.Phase = SandboxClaimPhaseClaiming
    /\ last.sandboxSet # None
    /\ LastTimeoutElapsed
    /\ last.claim.ClaimTimeout[1] > 0
    /\ last.now - last.status.ClaimStartTime[1] = last.claim.ClaimTimeout[1]
    /\ last.newStatus.Phase = SandboxClaimPhaseCompleted

\* C3: a call in phase Claiming with the pool present and no timeout
\* elapsed transitions to Completed (reason "AllReplicasClaimed", completion
\* timestamp set, Completed condition True, skip=true) if and only if
\* claimedReplicas >= desiredReplicas, desired being 1 when unset; otherwise
\* it stays Claiming with skip=false.
C3_ReplicasMetThreshold ==
    ( /\ last.called
      /\ last.status.Phase = SandboxClaimPhaseClaiming
      /\ last.sandboxSet # None
      /\ ~LastTimeoutElapsed )
    => IF last.status.ClaimedReplicas >= LastDesired
       THEN /\ last.newStatus.Phase = SandboxClaimPhaseCompleted
            /\ last.skip
            /\ last.newStatus.CompletionTime = Some(last.now)
            /\ ConditionHasReason(last.newStatus, SandboxClaimConditionCompleted,
                                  "AllReplicasClaimed")
       ELSE /\ last.newStatus.Phase = SandboxClaimPhaseClaiming
            /\ ~last.skip
            /\ last.newStatus.CompletionTime = None

\* A call completed with a claimed count above the desired count.
C3_Witness ==
    /\ last.called
    /\ last.status.Phase = SandboxClaimPhaseClaiming
    /\ last.sandboxSet # None
    /\ ~LastTimeoutElapsed
    /\ last.status.ClaimedReplicas > LastDesired
    /\ LastDesired >= 1
    /\ last.newStatus.Phase = SandboxClaimPhaseCompleted

\* C4 (as stated): a call in phase Claiming with the pool absent returns
\* phase Completed, skip=true, the completion timestamp set, and a Completed
\* condition with status True and reason "PoolNotFound".
C4_PoolNotFoundReason ==
    ( /\ last.called
      /\ last.status.Phase = SandboxClaimPhaseClaiming
      /\ last.sandboxSet = None )
    => /\ last.newStatus.Phase = SandboxClaimPhaseCompleted
       /\ last.skip
       /\ last.newStatus.CompletionTime = Some(last.now)
       /\ ConditionHasReason(last.newStatus, SandboxClaimConditionCompleted,
                             "PoolNotFound")

\* C4 (amended): a call in phase Claiming with the pool absent returns phase
\* Completed, skip=true, the completion timestamp set to now, and a Completed
\* condition with status True and reason "SandboxSetNotFound", whatever the
\* timeout and claimedReplicas are; no TimedOut condition is added.
C4_PoolAbsentTransition ==
    ( /\ last.called
      /\ last.status.Phase = SandboxClaimPhaseClaiming
      /\ last.sandboxSet = None )
    => /\ last.newStatus.Phase = SandboxClaimPhaseCompleted
       /\ last.skip
       /\ last.newStatus.CompletionTime = Some(last.now)
       /\ ConditionHasReason(last.newStatus, SandboxClaimConditionCompleted,
                             "SandboxSetNotFound")
       /\ ~ConditionIsTrue(last.newStatus, SandboxClaimConditionTimedOut)

\* A call found the pool absent while the timeout had elapsed and the
\* replica count was met.
C4_Witness ==
    /\ last.called
    /\ last.status.Phase = SandboxClaimPhaseClaiming
    /\ last.sandboxSet = None
    /\ LastTimeoutElapsed
    /\ last.status.ClaimedReplicas >= LastDesired
    /\ last.newStatus.Phase = SandboxClaimPhaseCompleted

C7_ClockSkewNeverTimesOut ==
    ( /\ last.called
      /\ last.status.ClaimStartTime # None
      /\ last.status.ClaimStartTime[1] > last.now )
    => ~isClaimTimeout(last.claim, last.status, last.now)

\* C8 (as stated): calling CalculateClaimStatus again on the status it
\* returned, with the same claim, pool presence and clock, yields that same
\* status and the same skipBusinessLogic value.
C8_Idempotent ==
    last.called
    => CalculateClaimStatus(last.claim, last.sandboxSet, last.newStatus, last.now)
         = [ newStatus |-> last.newStatus, skip |-> last.skip ]

\* C8 (amended): calling CalculateClaimStatus again on the status it
\* returned, with the same claim, pool presence and clock, yields that same
\* status whenever the first call was made in phase Claiming or Completed,
\* and the same skipBusinessLogic value whenever the first call left the
\* phase as it was.
C8_IdempotentOnceStarted ==
    ( last.called /\ last.status.Phase # SandboxClaimPhaseUnset )
    => LET again == CalculateClaimStatus(last.claim, last.sandboxSet,
                                         last.newStatus, last.now)
       IN  /\ again.newStatus = last.newStatus
           /\ (last.newStatus.Phase = last.status.Phase => again.skip = last.skip)

\* A call moved a Claiming status to Completed, so that the second call
\* runs on a status the first one changed.
C8_Witness ==
    /\ last.called
    /\ last.status.Phase = SandboxClaimPhaseClaiming
    /\ last.newStatus.Phase = SandboxClaimPhaseCompleted
    /\ last.skip

\* C9: the status returned by every call has observedGeneration equal to the
\* claim's generation, in every phase and on every return path.
C9_ObservedGeneration ==
    last.called => last.newStatus.ObservedGeneration = last.claim.Generation

\* A call on a Completed status whose observedGeneration was behind the
\* claim's generation.
C9_Witness ==
    /\ last.called
    /\ last.status.Phase = SandboxClaimPhaseCompleted
    /\ last.status.ObservedGeneration # last.claim.Generation
    /\ last.newStatus.ObservedGeneration = last.claim.Generation

\* C10: a call with phase Completed returns skip=false and leaves the phase,
\* the completion and claim-start timestamps, claimedReplicas, the message
\* and the conditions as they were, whatever the pool, timeout and count.
C10_TerminalUnchanged ==
    ( last.called /\ last.status.Phase = SandboxClaimPhaseCompleted )
    => /\ ~last.skip
       /\ last.newStatus.Phase = last.status.Phase
       /\ last.newStatus.CompletionTime = last.status.CompletionTime
       /\ last.newStatus.ClaimStartTime = last.status.ClaimStartTime
       /\ last.newStatus.ClaimedReplicas = last.status.ClaimedReplicas
       /\ last.newStatus.Message = last.status.Message
       /\ last.newStatus.Conditions = last.status.Conditions

\* A call on a status completed earlier, made later, with the pool absent,
\* the timeout elapsed and the replica count met.
C10_Witness ==
    /\ last.called
    /\ last.status.Phase = SandboxClaimPhaseCompleted
    /\ last.sandboxSet = None
    /\ LastTimeoutElapsed
    /\ last.status.ClaimedReplicas >= LastDesired
    /\ last.status.CompletionTime # Some(last.now)

\* C5 (as stated): the first reconciliation pass that observes the pool
\* missing for a claim in a non-Completed phase, the unset phase of a new
\* claim included, leaves the persisted phase Completed and requests no
\* requeue.
C5_PoolMissingFirstPass ==
    ( /\ result.passed
      /\ result.found
      /\ ~result.err
      /\ result.phaseBefore # SandboxClaimPhaseCompleted
      /\ result.sandboxSet = None )
    => /\ status.Phase = SandboxClaimPhaseCompleted
       /\ result.requeue = "NoRequeue"

\* C11: the claim-start timestamp is written only by the unset -> Claiming
\* transition: in every step taken once the phase has left unset (calls of
\* CalculateClaimStatus, clock, pool, spec and count changes) ClaimStartTime
\* keeps its value, and a step that changes it starts from phase unset and
\* ends in phase Claiming.
C11_StartTimeWrittenOnce ==
    [][ /\ status.Phase # SandboxClaimPhaseUnset
            => status'.ClaimStartTime = status.ClaimStartTime
        /\ status'.ClaimStartTime # status.ClaimStartTime
            => /\ status.Phase = SandboxClaimPhaseUnset
               /\ status'.Phase = SandboxClaimPhaseClaiming ]_vars

\* A call made later than the initial transition, after the claim's spec
\* was updated, on a status that still carries the start time of the
\* initial transition.
C11_Witness ==
    /\ last.called
    /\ last.status.Phase = SandboxClaimPhaseClaiming
    /\ last.status.ObservedGeneration # last.claim.Generation
    /\ last.status.ClaimStartTime = Some(0)
    /\ last.now = 2
    /\ status.ClaimStartTime = Some(0)

\* No two entries of the list have the same type.
UniqueTypes(conditions) ==
    \A i, j \in 1..Len(conditions) :
        conditions[i].Type = conditions[j].Type => i = j

\* C12: from a list without duplicate types, any sequence of setCondition
\* calls leaves at most one entry per type; a call with a type the list
\* has leaves the length unchanged, a call with a new type adds one entry.
C12_UniqueTypes ==
    /\ UniqueTypes(ListAt(conds))
    /\ ( lastSet.called /\ lastSet.before # None ) =>
          IF \E i \in 1..Len(ListAt(lastSet.before)) :
                ListAt(lastSet.before)[i].Type = lastSet.newCondition.Type
          THEN Len(ListAt(conds)) = Len(ListAt(lastSet.before))
          ELSE Len(ListAt(conds)) = Len(ListAt(lastSet.before)) + 1

\* A call replaced the second of two conditions by one of the same type
\* and another reason.
C12_Witness ==
    /\ lastSet.called
    /\ Len(ListAt(lastSet.before)) = 2
    /\ ListAt(lastSet.before)[2].Type = lastSet.newCondition.Type
    /\ ListAt(lastSet.before)[2].Reason # lastSet.newCondition.Reason
    /\ Len(ListAt(conds)) = 2
    /\ ListAt(conds)[2] = lastSet.newCondition

\* None of the rules on deletion, shutdown time and phase applies to sbx.
NoEarlyRule ==
    /\ sbx.DeletionTimestamp = None
    /\ ~(sbx.ShutdownTime # None /\ sbx.ShutdownTime[1] < now)
    /\ sbx.Phase \notin { SandboxPending, SandboxSucceeded, SandboxFailed,
                           SandboxTerminating }

\* C17: computeSandboxState returns dead/"ResourceDeleted" for every
\* sandbox with a deletion timestamp; otherwise dead/"ShutdownTimeReached"
\* when its shutdown time is in the past; otherwise
\* creating/"ResourcePending" in phase Pending; otherwise dead in phase
\* Succeeded, Failed or Terminating; the outcomes that depend on ownership,
\* readiness and the pause flag appear only when none of these applies.
C17_ClassifierPriority ==
    classified # None =>
        LET r == classified[1]
        IN  IF sbx.DeletionTimestamp # None
            THEN r = Entry(SandboxStateDead, "ResourceDeleted")
            ELSE IF sbx.ShutdownTime # None /\ sbx.ShutdownTime[1] < now
            THEN r = Entry(SandboxStateDead, "ShutdownTimeReached")
            ELSE IF sbx.Phase = SandboxPending
            THEN r = Entry(SandboxStateCreating, "ResourcePending")
            ELSE IF sbx.Phase \in { SandboxSucceeded, SandboxFailed,
                                    SandboxTerminating }
            THEN /\ r.state = SandboxStateDead
                 /\ r.reason \in { "ResourceSucceeded", "ResourceFailed",
                                    "ResourceTerminating" }
            ELSE r.reason \in { "ResourceControlledBySbsAndReady",
                                "ResourceControlledBySbsButNotReady",
                                "RunningResourceClaimedAndPaused",
                                "RunningResourceClaimedAndReady",
                                "RunningResourceClaimedButNotReady",
                                "NotRunningResourceClaimed" }

\* A sandbox that is being deleted, is past its shutdown time, is in phase
\* Pending and is a ready member of a SandboxSet was classified.
C17_Witness ==
    /\ classified = Some(Entry(SandboxStateDead, "ResourceDeleted"))
    /\ sbx.DeletionTimestamp # None
    /\ sbx.ShutdownTime # None
    /\ sbx.ShutdownTime[1] < now
    /\ sbx.Phase = SandboxPending
    /\ sbx.Controller # None
    /\ sbx.PodIP # ""

\* sbx has a controlling owner reference to a SandboxSet of the API version
\* of this controller.
OwnedBySandboxSet ==
    /\ sbx.Controller # None
    /\ sbx.Controller[1].Kind = "SandboxSet"
    /\ sbx.Controller[1].APIVersion = "agents.kruise.io/v1alpha1"

\* sbx has a pod IP and a Ready condition with status True.
SbxReady ==
    /\ sbx.PodIP # ""
    /\ \E i \in 1..Len(sbx.Conditions) :
          /\ sbx.Conditions[i].Type = "Ready"
          /\ sbx.Conditions[i].Status = "True"

\* C18: when no rule on deletion, shutdown time or phase applies, a sandbox
\* controlled by a SandboxSet is available if ready and creating otherwise,
\* whatever its pause flag and phase; a sandbox not controlled by one is, in
\* phase Running, paused if the pause flag is set, else running if ready,
\* else dead, and in every other phase paused.
C18_OwnershipBranch ==
    (classified # None /\ NoEarlyRule) =>
        LET r == classified[1]
        IN  IF OwnedBySandboxSet
            THEN r.state = IF SbxReady THEN SandboxStateAvailable
                                       ELSE SandboxStateCreating
            ELSE IF sbx.Phase = SandboxRunning
            THEN r.state = IF sbx.Paused THEN SandboxStatePaused
                           ELSE IF SbxReady THEN SandboxStateRunning
                           ELSE SandboxStateDead
            ELSE r.state = SandboxStatePaused

\* A running sandbox that is not paused, not ready and controlled by an
\* object of kind SandboxSet of another API version was classified as dead.
C18_Witness ==
    /\ classified # None
    /\ NoEarlyRule
    /\ sbx.Controller # None
    /\ sbx.Controller[1].Kind = "SandboxSet"
    /\ ~OwnedBySandboxSet
    /\ sbx.Phase = SandboxRunning
    /\ ~sbx.Paused
    /\ ~SbxReady
    /\ classified[1].state = SandboxStateDead

\* Some call of DeleteSandboxCache for the identity is under way.
Invalidating(id) ==
    \E g \in Callers :
        /\ calls[g].op = "delete"
        /\ << calls[g].namespace, calls[g].name >> = id

\* C13: whatever the number of GetSandboxState calls on one key, and however
\* their Load, computation and LoadOrStore interleave, the key has one
\* inserted pair for as long as it stays in the cache (the first insert),
\* and every call that returns for the key returns that pair, also a call
\* that computed another pair for itself.
C13_Canonical ==
    /\ \A p, q \in hist.canon : p[1] = q[1] => p = q
    /\ (ev.kind = "get" /\ ev.path # "bypass") =>
           << ev.key, ev.value[1] >> \in hist.canon

\* A call that missed and computed a pair found, at its LoadOrStore, the
\* other pair a concurrent call had inserted first, and returned that one.
C13_Witness ==
    /\ ev.kind = "get"
    /\ ev.path = "lost"
    /\ ev.computed # ev.value
    /\ << ev.key, ev.value[1] >> \in hist.canon

\* C14: once the calls of DeleteSandboxCache(namespace, name) have returned,
\* no entry of that identity that was stored before they began is left, for
\* any resource version, so that a later GetSandboxState for the identity
\* cannot return a value stored before the invalidation.
C14_Invalidation ==
    \A id \in Identities :
        ~Invalidating(id) =>
            /\ \A k \in hist.old : OwnerOf(k) # id
            /\ (ev.kind = "get" /\ ev.path = "hit" /\ OwnerOf(ev.key) = id)
                   => ev.key \notin hist.old

\* A DeleteSandboxCache call that removed the entries of two resource
\* versions has returned, and the cache has no entry of its identity.
C14_Witness ==
    /\ ev.kind = "delete"
    /\ ev.removed = 2
    /\ ~Invalidating(<< ev.namespace, ev.name >>)
    /\ \A k \in DOMAIN cache : OwnerOf(k) # << ev.namespace, ev.name >>

\* C15: a GetSandboxState call on a sandbox with an empty resource version
\* returns what computeSandboxState gives for it at that moment and leaves
\* the cache as it was.
C15_EmptyVersionBypass ==
    [][ (ev'.kind = "get" /\ ev'.sbx[1].ResourceVersion = << >>)
            => /\ cache' = cache
               /\ ev'.value = Some(computeSandboxState(ev'.sbx[1], now')) ]_vars

\* A call on a sandbox without resource version returned a pair other than
\* the one the cache holds for a stored version of the same sandbox.
C15_Witness ==
    /\ ev.kind = "get"
    /\ ev.path = "bypass"
    /\ ev.sbx[1].ResourceVersion = << >>
    /\ \E k \in DOMAIN cache :
          /\ OwnerOf(k) = << ev.sbx[1].Namespace, ev.sbx[1].Name >>
          /\ Some(cache[k]) # ev.value

\* C16: in every step of concurrent GetSandboxState and DeleteSandboxCache
\* calls, a key that stays in the cache keeps its value, and a key leaves
\* the cache only in the Range callback of a DeleteSandboxCache call for
\* the key's identity.
C16_StableEntries ==
    [][ \A k \in DOMAIN cache :
            IF k \in DOMAIN cache'
            THEN cache'[k] = cache[k]
            ELSE \E g \in Callers :
                    /\ calls[g].op = "delete"
                    /\ << calls[g].namespace, calls[g].name >> = OwnerOf(k)
                    /\ k \in calls'[g].seen \ calls[g].seen ]_vars

\* While one goroutine is between the miss and the LoadOrStore of a key, a
\* second call has stored the key and a DeleteSandboxCache call, still
\* under way, has deleted it.
C16_Witness ==
    \E g, h \in Callers :
        /\ calls[g].op = "get"
        /\ calls[h].op = "delete"
        /\ calls[g].key \in calls[h].seen
        /\ calls[g].key \notin DOMAIN cache

\* C19: countClaimedSandboxes returns the number of sandboxes in the
\* claim's namespace whose claimed-by label is the claim's UID and whose
\* claimed-by-name label is the claim's name: sandboxes of another claim,
\* with one matching label only, without labels or in another namespace are
\* left out, and the phase of a sandbox plays no part.
C19_CountBound ==
    counted.called =>
        counted.count =
            Cardinality({ s \in sandboxes :
                            /\ s.Namespace = "default"
                            /\ s.Labels.ClaimedBy = Some("test-claim-uid")
                            /\ s.Labels.ClaimedByName = Some("test-claim") })

\* The count was 1 with a failed sandbox bound to the claim, a sandbox that
\* has the claim's name label with another UID, and a sandbox with both
\* labels in another namespace.
C19_Witness ==
    /\ counted.called
    /\ counted.count = 1
    /\ \E s \in sandboxes :
          /\ s.Namespace = "default"
          /\ s.Labels.ClaimedBy = Some("test-claim-uid")
          /\ s.Labels.ClaimedByName = Some("test-claim")
          /\ s.Phase = SandboxFailed
    /\ \E s \in sandboxes :
          /\ s.Namespace = "default"
          /\ s.Labels.ClaimedBy = Some("other-uid")
          /\ s.Labels.ClaimedByName = Some("test-claim")
    /\ \E s \in sandboxes :
          /\ s.Namespace = "other"
          /\ s.Labels.ClaimedBy = Some("test-claim-uid")

\* C20: the first pass for a new claim (phase unset) whose SandboxSet
\* exists runs EnsureClaimPending, persists phase Claiming with
\* ClaimStartTime set to the time of the pass, and asks for an immediate
\* requeue.
C20_ScenarioA ==
    ( /\ result.passed
      /\ result.found
      /\ result.phaseBefore = SandboxClaimPhaseUnset
      /\ result.sandboxSet # None )
    => /\ status.Phase = SandboxClaimPhaseClaiming
       /\ status.ClaimStartTime = Some(now)
       /\ status.CompletionTime = None
       /\ result.ensured = SandboxClaimPhaseUnset
       /\ result.requeue = "RequeueImmediately"
       /\ ~result.err
       /\ claimExists

\* The first pass was made for a new claim without desired replicas, with
\* the SandboxSet present and no sandbox bound.
C20_Witness ==
    /\ result.passed
    /\ result.found
    /\ result.phaseBefore = SandboxClaimPhaseUnset
    /\ result.sandboxSet # None
    /\ claim.Replicas = None
    /\ claimedSandboxes = 0
    /\ status.Phase = SandboxClaimPhaseClaiming
    /\ status.ClaimStartTime # None
    /\ result.requeue = "RequeueImmediately"

\* The latest pass loaded the claim in phase Claiming and ran
\* EnsureClaimClaiming without an error.
ClaimingEnsured ==
    /\ result.passed
    /\ result.found
    /\ ~result.err
    /\ result.ensured = SandboxClaimPhaseClaiming

\* C21: EnsureClaimClaiming stores in claimedReplicas the number of
\* sandboxes bound to the claim; it asks for an immediate requeue when that
\* number is at least the desired replica count and for a requeue after a
\* positive, bounded delay otherwise; it leaves the phase Claiming.
C21_EnsureClaimClaiming ==
    ClaimingEnsured
    => /\ status.ClaimedReplicas = claimedSandboxes
       /\ status.Phase = SandboxClaimPhaseClaiming
       /\ status.CompletionTime = None
       /\ claimExists
       /\ IF claimedSandboxes >= LastDesired
          THEN result.requeue = "RequeueImmediately"
          ELSE /\ result.requeue = "RequeueAfter"
               /\ result.after > 0
               /\ result.after <= ClaimRetryDelay

\* EnsureClaimClaiming found one sandbox bound to a claim that asks for
\* two, stored the count and asked for a delayed requeue.
C21_Witness ==
    /\ ClaimingEnsured
    /\ claim.Replicas = Some(2)
    /\ claimedSandboxes = 1
    /\ last.status.ClaimedReplicas = 0
    /\ status.ClaimedReplicas = 1
    /\ result.requeue = "RequeueAfter"

\* The latest pass loaded the claim in phase Completed and ran
\* EnsureClaimCompleted without an error.
CompletedEnsured ==
    /\ result.passed
    /\ result.found
    /\ ~result.err
    /\ result.ensured = SandboxClaimPhaseCompleted

\* Time since the persisted completion time.
SinceCompletion == now - status.CompletionTime[1]

\* C22: EnsureClaimCompleted asks for no requeue when no TTL is set; with a
\* TTL and now - completionTime < TTL it asks for a requeue after the
\* remaining time, which is positive; once the TTL has elapsed it deletes
\* the claim and asks for no requeue.  The claim is deleted only with a TTL
\* set and elapsed.
C22_CompletedRequeueRule ==
    /\ CompletedEnsured
       => /\ status.Phase = SandboxClaimPhaseCompleted
          /\ status.CompletionTime # None
          /\ status = last.status
          /\ IF claim.TTLAfterCompleted = None
             THEN result.requeue = "NoRequeue" /\ claimExists
             ELSE IF SinceCompletion < claim.TTLAfterCompleted[1]
             THEN /\ result.requeue = "RequeueAfter"
                  /\ result.after = claim.TTLAfterCompleted[1] - SinceCompletion
                  /\ result.after > 0
                  /\ claimExists
             ELSE /\ result.requeue = "NoRequeue"
                  /\ ~claimExists
    /\ ~claimExists
       => /\ claim.TTLAfterCompleted # None
          /\ status.Phase = SandboxClaimPhaseCompleted
          /\ status.CompletionTime # None
          /\ SinceCompletion >= claim.TTLAfterCompleted[1]

\* EnsureClaimCompleted ran on a claim with a TTL of one time unit at the
\* very time of completion and asked for a requeue after the whole TTL.
C22_Witness ==
    /\ CompletedEnsured
    /\ claim.TTLAfterCompleted = Some(1)
    /\ status.CompletionTime = Some(now)
    /\ claimExists
    /\ result.requeue = "RequeueAfter"
    /\ result.after = 1

\* The latest pass loaded the claim in phase Claiming with its SandboxSet
\* present, a timeout configured and now - claimStartTime >= timeout.
TimedOutPass ==
    /\ result.passed
    /\ result.found
    /\ ~result.err
    /\ result.phaseBefore = SandboxClaimPhaseClaiming
    /\ result.sandboxSet # None
    /\ last.called
    /\ LastTimeoutElapsed

\* C23: a pass over a claim in phase Claiming whose timeout has elapsed
\* persists phase Completed with the completion time set to the time of the
\* pass, a message that reports claimedReplicas/desiredReplicas, the
\* TimedOut and Completed conditions both true, and returns no requeue,
\* neither immediate nor delayed.
C23_ScenarioB ==
    TimedOutPass
    => /\ status.Phase = SandboxClaimPhaseCompleted
       /\ status.CompletionTime = Some(now)
       /\ Len(status.Message) = 4
       /\ status.Message[1] = "Timeout reached after %v, claimed %d/%d sandboxes"
       /\ status.Message[3] = last.status.ClaimedReplicas
       /\ status.Message[4] = LastDesired
       /\ status.ClaimedReplicas = last.status.ClaimedReplicas
       /\ ConditionIsTrue(status, SandboxClaimConditionTimedOut)
       /\ ConditionIsTrue(status, SandboxClaimConditionCompleted)
       /\ result.requeue = "NoRequeue"
       /\ result.after = 0
       /\ claimExists

\* A claim for two replicas with one claimed timed out, and the pass
\* persisted Completed with the message reporting 1/2.
C23_Witness ==
    /\ TimedOutPass
    /\ claim.Replicas = Some(2)
    /\ last.status.ClaimedReplicas = 1
    /\ status.Phase = SandboxClaimPhaseCompleted
    /\ status.Message[3] = 1
    /\ status.Message[4] = 2
    /\ result.requeue = "NoRequeue"

\* The latest pass found the claim and CalculateClaimStatus returned
\* skipBusinessLogic = true in it.
SkippedPass ==
    /\ result.passed
    /\ result.found
    /\ last.called
    /\ last.skip

C25_ClaimNotFound ==
    [][ ( result'.passed /\ ~result'.found )
        => /\ ~claimExists
           /\ ~claimExists'
           /\ status' = status
           /\ claim' = claim
           /\ sandboxSet' = sandboxSet
           /\ claimedSandboxes' = claimedSandboxes
           /\ ~result'.err
           /\ result'.requeue = "NoRequeue"
           /\ result'.after = 0
           /\ result'.ensured = "none" ]_vars

\* A pass was made for a claim that the TTL cleanup had deleted.
C25_Witness ==
    /\ result.passed
    /\ ~result.found
    /\ ~claimExists
    /\ ~result.err
    /\ result.requeue = "NoRequeue"
    /\ status.Phase = SandboxClaimPhaseCompleted

\* C29: with passes of two workers overlapping on one claim, each working
\* from what it loaded, and the object store rejecting every status write
\* that carries a stale version, the persisted phase never goes from
\* Completed back to Claiming or unset, nor from Claiming back to unset.
C29_NoRegressUnderRace ==
    [][ PhaseRank(status'.Phase) >= PhaseRank(status.Phase) ]_vars

\* A pass that had loaded the claim in phase Claiming ended in a version
\* conflict after another pass had persisted Completed.
C29_Witness ==
    /\ done.kind = "conflict"
    /\ done.loaded.Phase = SandboxClaimPhaseClaiming
    /\ done.computed.Phase = SandboxClaimPhaseClaiming
    /\ status.Phase = SandboxClaimPhaseCompleted

\* C26: when the list call fails in the Claiming Ensure step (the pass
\* had loaded the claim in phase Claiming), the pass returns the error and
\* the step leaves the persisted status, phase and claimedReplicas
\* included, and the claim as they were; it makes no pass in flight stale.
C26_ListErrorWritesNothing ==
    [][ done'.kind = "listError"
        => /\ done'.err
           /\ status' = status
           /\ done'.loaded.Phase = SandboxClaimPhaseClaiming
           /\ \A v \in Workers :
                 passes[v].pc = "loaded" /\ v # done'.worker
                 => passes'[v] = passes[v]
           /\ claim' = claim
           /\ claimExists' = claimExists ]_vars

\* The list call failed in a pass that had loaded a claim whose spec had
\* been updated: the status computed in memory carries the new generation,
\* the persisted status does not, and the bound sandboxes were not counted.
C26_Witness ==
    /\ done.kind = "listError"
    /\ done.err
    /\ done.loaded = status
    /\ done.computed.ObservedGeneration = 2
    /\ status.ObservedGeneration = 1
    /\ status.Phase = SandboxClaimPhaseClaiming
    /\ claimedSandboxes = 1
    /\ status.ClaimedReplicas = 0

\* The desired replica count an object stands for, 1 when unset.
EffectiveReplicas(object) ==
    IF object.Replicas = None THEN 1 ELSE object.Replicas[1]

\* The latest request was an update whose two objects could be decoded.
DecodedUpdate ==
    /\ admission.Operation = OperationUpdate
    /\ admission.decodes
    /\ admission.oldDecodes

\* C27: the handler denies every update whose effective desired replica
\* count (unset counted as 1) differs from the old object's and allows
\* every update that keeps it; so the stored claim's effective desired
\* replica count is always the one it was created with.
C27_ReplicasImmutable ==
    /\ DecodedUpdate
       => ( admission.Allowed
            <=> EffectiveReplicas(admission.Object[1])
                  = EffectiveReplicas(admission.OldObject[1]) )
    /\ ( DecodedUpdate /\ ~admission.Allowed ) => admission.Code = 403
    /\ apiClaim # None => EffectiveReplicas(apiClaim[1]) = firstReplicas

\* An update from unset replicas to one replica that also changes the
\* timeout was allowed and stored.
C27_Witness ==
    /\ DecodedUpdate
    /\ admission.Allowed
    /\ admission.OldObject[1].Replicas = None
    /\ admission.Object[1].Replicas = Some(1)
    /\ admission.OldObject[1].ClaimTimeout # admission.Object[1].ClaimTimeout
    /\ apiClaim = admission.Object
    /\ firstReplicas = 1

\* The claim is in phase Claiming with a timeout that ends within the
\* time the clock covers.
TimeoutWithinHorizon ==
    /\ claimExists
    /\ status.Phase = SandboxClaimPhaseClaiming
    /\ claim.ClaimTimeout # None
    /\ status.ClaimStartTime # None
    /\ status.ClaimStartTime[1] + claim.ClaimTimeout[1] <= MaxTime

\* C28: when every requested pass is run in the end and time goes on, a
\* new claim leaves the unset phase, and a claim in phase Claiming with a
\* timeout configured reaches phase Completed, whatever the delays of the
\* passes, the list errors and the restarts of the controller in between:
\* the elapsed time is taken from the persisted ClaimStartTime.
C28_TimeoutLiveness ==
    /\ ( claimExists /\ status.Phase = SandboxClaimPhaseUnset )
          ~> ( status.Phase # SandboxClaimPhaseUnset )
    /\ TimeoutWithinHorizon ~> ( status.Phase = SandboxClaimPhaseCompleted )

\* A pass that came later than the end of the timeout completed the claim
\* as timed out.
C28_Witness ==
    /\ result.passed
    /\ result.phaseBefore = SandboxClaimPhaseClaiming
    /\ last.called
    /\ last.skip
    /\ status.Phase = SandboxClaimPhaseCompleted
    /\ ConditionIsTrue(status, SandboxClaimConditionTimedOut)
    /\ claim.ClaimTimeout = Some(1)
    /\ status.CompletionTime[1] > last.status.ClaimStartTime[1] + 1

\* The status has a condition of the given type, whatever its status.
HasCondition(st, type) ==
    \E i \in 1..Len(st.Conditions) : st.Conditions[i].Type = type

\* C30: in a CalculateClaimStatus call on a claim in phase Claiming the
\* terminal causes have a fixed priority.  With the SandboxSet absent the
\* result is the SandboxSet-not-found outcome and no TimedOut condition is
\* set, even when the timeout has elapsed.  With the SandboxSet present
\* and the timeout elapsed the result is the timeout outcome (TimedOut
\* true, reason "TimeoutReached", never "AllReplicasClaimed"), even when
\* claimedReplicas >= desired.  Only otherwise do met replicas give
\* "AllReplicasClaimed".
C30_TerminalPriority ==
    ( last.called /\ last.status.Phase = SandboxClaimPhaseClaiming )
    => /\ last.sandboxSet = None
          => /\ last.skip
             /\ last.newStatus.Phase = SandboxClaimPhaseCompleted
             /\ ConditionHasReason(last.newStatus, SandboxClaimConditionCompleted,
                                   "SandboxSetNotFound")
             /\ ~HasCondition(last.newStatus, SandboxClaimConditionTimedOut)
       /\ ( last.sandboxSet # None /\ LastTimeoutElapsed )
          => /\ last.skip
             /\ last.newStatus.Phase = SandboxClaimPhaseCompleted
             /\ ConditionIsTrue(last.newStatus, SandboxClaimConditionTimedOut)
             /\ ConditionHasReason(last.newStatus, SandboxClaimConditionCompleted,
                                   "TimeoutReached")
             /\ ~ConditionHasReason(last.newStatus, SandboxClaimConditionCompleted,
                                    "AllReplicasClaimed")
       /\ ( /\ last.sandboxSet # None
            /\ ~LastTimeoutElapsed
            /\ last.status.ClaimedReplicas >= LastDesired )
          => /\ last.skip
             /\ ConditionHasReason(last.newStatus, SandboxClaimConditionCompleted,
                                   "AllReplicasClaimed")
             /\ ~HasCondition(last.newStatus, SandboxClaimConditionTimedOut)

\* A call found the timeout elapsed and the replicas met at once, with the
\* SandboxSet present, and returned the timeout outcome.
C30_Witness ==
    /\ last.called
    /\ last.status.Phase = SandboxClaimPhaseClaiming
    /\ last.sandboxSet # None
    /\ LastTimeoutElapsed
    /\ last.claim.Replicas = Some(2)
    /\ last.status.ClaimedReplicas = 2
    /\ ConditionIsTrue(last.newStatus, SandboxClaimConditionTimedOut)
    /\ ConditionHasReason(last.newStatus, SandboxClaimConditionCompleted,
                          "TimeoutReached")

\* C31: a call returns skip=true exactly when it was made in phase Claiming
\* and returns phase Completed; a call in phase Claiming that returns
\* skip=false returns the status it was given with only observedGeneration
\* refreshed; no call changes claimedReplicas, and no call changes the claim.
C31_SkipIffFreshTerminal ==
    [][ last'.called =>
          /\ last'.skip <=> ( /\ last'.status.Phase = SandboxClaimPhaseClaiming
                              /\ last'.newStatus.Phase = SandboxClaimPhaseCompleted )
          /\ ( last'.status.Phase = SandboxClaimPhaseClaiming /\ ~last'.skip )
             => last'.newStatus =
                  [last'.status EXCEPT !.ObservedGeneration = last'.claim.Generation]
          /\ last'.newStatus.ClaimedReplicas = last'.status.ClaimedReplicas
          /\ last'.claim = claim
          /\ claim' = claim ]_vars

\* A call in phase Claiming with the pool present, no timeout elapsed and
\* fewer sandboxes claimed than desired, made after the claim's generation
\* has grown: skip=false and only observedGeneration differs.
C31_Witness ==
    /\ last.called
    /\ last.status.Phase = SandboxClaimPhaseClaiming
    /\ last.sandboxSet # None
    /\ ~last.skip
    /\ last.status.ClaimedReplicas > 0
    /\ last.status.ObservedGeneration # last.claim.Generation
    /\ last.newStatus.Phase = SandboxClaimPhaseClaiming
    /\ last.newStatus # last.status

\* C32: a setCondition call through a non-nil pointer with a type the list
\* has puts the whole new condition, transition time included, at the
\* position of the first entry of that type and leaves every other entry
\* where and as it was; with a new type it leaves the entries where they
\* were and adds the new condition at the end.
C32_InPlaceReplacement ==
    ( lastSet.called /\ lastSet.before # None ) =>
        LET before == ListAt(lastSet.before)
            after == ListAt(conds)
            c == lastSet.newCondition
        IN  IF \E i \in 1..Len(before) : before[i].Type = c.Type
            THEN /\ Len(after) = Len(before)
                 /\ \E i \in 1..Len(before) :
                       /\ before[i].Type = c.Type
                       /\ \A j \in 1..(i - 1) : before[j].Type # c.Type
                       /\ after[i] = c
                       /\ \A j \in 1..Len(before) : j # i => after[j] = before[j]
            ELSE /\ Len(after) = Len(before) + 1
                 /\ \A j \in 1..Len(before) : after[j] = before[j]
                 /\ after[Len(after)] = c

\* A call replaced the first of two conditions by one with the same type,
\* status, reason and message and another transition time.
C32_Witness ==
    /\ lastSet.called
    /\ Len(ListAt(lastSet.before)) = 2
    /\ ListAt(lastSet.before)[1].Type = lastSet.newCondition.Type
    /\ ListAt(lastSet.before)[1].Status = lastSet.newCondition.Status
    /\ ListAt(lastSet.before)[1].Reason = lastSet.newCondition.Reason
    /\ ListAt(lastSet.before)[1].Message = lastSet.newCondition.Message
    /\ ListAt(lastSet.before)[1].LastTransitionTime
          # lastSet.newCondition.LastTransitionTime
    /\ ListAt(conds)[1] = lastSet.newCondition
    /\ ListAt(conds)[2] = ListAt(lastSet.before)[2]

\* C33: a setCondition call through the nil pointer changes nothing and adds
\* nothing; a call through a pointer to the nil slice or to the empty slice
\* leaves a list whose single entry is the new condition.
C33_NilPointerNoOp ==
    lastSet.called =>
        /\ lastSet.before = None => conds = None
        /\ lastSet.before \in {Some(NilSlice), Some(Slice(<< >>))}
             => /\ conds # None
                /\ ~conds[1].isNil
                /\ conds[1].elems = << lastSet.newCondition >>

\* A call was made through the nil pointer.
C33_Witness ==
    /\ lastSet.called
    /\ lastSet.before = None
    /\ conds = None

\* The sandbox has a Ready condition with status True.
ReadyConditionTrue(s) ==
    \E i \in 1..Len(s.Conditions) :
        /\ s.Conditions[i].Type = SandboxConditionReady
        /\ s.Conditions[i].Status = ConditionTrue

\* C34: IsSandboxReady is true exactly for a sandbox with a non-empty pod
\* address and a Ready condition of status True; accordingly a sandbox
\* controlled by a SandboxSet that no earlier rule applies to is classified
\* available exactly then, and creating without the condition, with the
\* condition False or Unknown, or without an address.
C34_Readiness ==
    /\ classified # None
       => ( IsSandboxReady(sbx) <=> ( sbx.PodIP # "" /\ ReadyConditionTrue(sbx) ) )
    /\ ( classified # None /\ NoEarlyRule /\ IsControlledBySandboxCR(sbx) )
       => /\ ( sbx.PodIP # "" /\ ReadyConditionTrue(sbx) )
             => classified[1].state = SandboxStateAvailable
          /\ ~( sbx.PodIP # "" /\ ReadyConditionTrue(sbx) )
             => classified[1].state = SandboxStateCreating

\* A sandbox of a SandboxSet whose second condition is Ready with status
\* True and which has no pod address was classified creating.
C34_Witness ==
    /\ classified # None
    /\ NoEarlyRule
    /\ IsControlledBySandboxCR(sbx)
    /\ sbx.PodIP = ""
    /\ Len(sbx.Conditions) = 2
    /\ ReadyConditionTrue(sbx)
    /\ classified[1].state = SandboxStateCreating

C36_InvalidationFinal ==
    ( \A g \in Callers : calls[g].op = "idle" )
    => \A k \in DOMAIN cache : OwnerOf(k) \notin hist.final

\* C38 (as stated): every GetSandboxState call on a sandbox with a resource
\* version returns the (state, reason) that computeSandboxState gives for
\* that sandbox at the time of the call, also once the sandbox's shutdown
\* time has passed under an unchanged resource version.
\* A call that finds the key is one Load at the present clock reading; a
\* call that misses computes at some reading up to the present one.
C38_CacheTransparent ==
    ( ev.kind = "get" /\ ev.sbx[1].ResourceVersion # << >> )
    => IF ev.path = "hit"
       THEN ev.value[1] = computeSandboxState(ev.sbx[1], now)
       ELSE \E t \in 0..now : ev.value[1] = computeSandboxState(ev.sbx[1], t)

\* The key is the cache key of a sandbox of the identity, at some version.
KeyOfIdentity(key, id) ==
    \E n \in 1..MaxVersion :
        key = id[1] \o << "/" >> \o id[2] \o << "/" >> \o FormatInt(n)

\* C37 (as stated): DeleteSandboxCache(namespace, name) leaves in place and
\* unchanged every entry of a sandbox whose (namespace, name) is not the
\* given pair, whatever the two strings are, and removes nothing when the
\* namespace or the name is empty.
C37_OnlyOwnIdentity ==
    [][ ev'.kind = "delete" =>
          /\ \A k \in DOMAIN cache :
                ( \E id \in InvalidatedIdentities :
                      /\ id # << ev'.namespace, ev'.name >>
                      /\ KeyOfIdentity(k, id) )
                => ( k \in DOMAIN cache' /\ cache'[k] = cache[k] )
          /\ ( ev'.namespace = << >> \/ ev'.name = << >> ) => cache' = cache
      ]_vars

\* The number of conditions of the given type in the status.
ConditionCount(st, type) ==
    Cardinality({ i \in 1..Len(st.Conditions) : st.Conditions[i].Type = type })

\* C39: every status reached from the zero status through calls of
\* CalculateClaimStatus is well formed: in phase Claiming the claim-start
\* time is set; in phase Completed the completion time is set and there is
\* exactly one Completed condition, with status True; a TimedOut condition
\* is there only in a status completed on the timeout path, and the call
\* that adds it is one in phase Claiming with the pool present and the
\* timeout elapsed.
C39_WellFormedStatus ==
    /\ status.Phase = SandboxClaimPhaseClaiming => status.ClaimStartTime # None
    /\ status.Phase = SandboxClaimPhaseCompleted
       => /\ status.CompletionTime # None
          /\ ConditionCount(status, SandboxClaimConditionCompleted) = 1
          /\ ConditionIsTrue(status, SandboxClaimConditionCompleted)
    /\ HasCondition(status, SandboxClaimConditionTimedOut)
       => /\ status.Phase = SandboxClaimPhaseCompleted
          /\ ConditionHasReason(status, SandboxClaimConditionCompleted,
                                "TimeoutReached")
    /\ ( /\ last.called
         /\ HasCondition(last.newStatus, SandboxClaimConditionTimedOut)
         /\ ~HasCondition(last.status, SandboxClaimConditionTimedOut) )
       => /\ last.status.Phase = SandboxClaimPhaseClaiming
          /\ last.sandboxSet # None
          /\ LastTimeoutElapsed

\* A status completed on the timeout path, holding the TimedOut and the
\* Completed condition, was handed to a later call and came back as it was.
C39_Witness ==
    /\ last.called
    /\ last.status.Phase = SandboxClaimPhaseCompleted
    /\ HasCondition(last.status, SandboxClaimConditionTimedOut)
    /\ Len(status.Conditions) = 2
    /\ status.CompletionTime # None
    /\ status.CompletionTime[1] < last.now

\* C40 (as stated): the versions the reactor assigns grow strictly in the
\* order it assigns them, so that no two requests get the same one and
\* every update gets one above all assigned before; a create with no
\* version or with "0" gets a version of the reactor and a create with any
\* other version keeps it; and the object stored by an update never has the
\* cache key the stored object had before the update.
C40_ReactorVersions ==
    /\ \A i, j \in 1..Len(assigned) : i < j => assigned[i] < assigned[j]
    /\ ev.kind = "create"
       => IF ev.preset \in {<< >>, << "0" >>}
          THEN /\ ev.object[1].ResourceVersion \notin {<< >>, << "0" >>}
               /\ \E i \in 1..Len(assigned) :
                     ev.object[1].ResourceVersion = FormatInt(assigned[i])
          ELSE ev.object[1].ResourceVersion = ev.preset
    /\ ( ev.kind = "update" /\ ~ev.err )
       => cacheKey(ev.object[1]) # ev.previous[1]

====
